---------------------------- MODULE Spec2Model ----------------------------
(***************************************************************************)
(* A model of the ik-prototype animation/physics runtime: the Verlet       *)
(* particle system (src/src/particle.rs), the rigid body                   *)
(* (src/src/rigid_body.rs), the ragdoll (src/src/ragdoll.rs), the skeleton *)
(* and its animator (src/src/skeleton.rs, src/src/animation.rs), and the   *)
(* stick figure controller with its accessories (src/src/library).         *)
(*                                                                         *)
(* Numbers.  The program computes in f32.  The model computes in integers: *)
(* a length or coordinate is counted in hundredths of a unit, an inverse   *)
(* mass in hundredths (0 = pinned, 100 = 1.0), an angle in milliradians    *)
(* and a time in milliseconds.  A division rounds toward zero.             *)
(***************************************************************************)
EXTENDS Integers, Sequences, FiniteSets, TLC

VARIABLES
    ps,             \* particle.rs: a ParticleSystem under test
    ps_calls,       \* number of collider invocations made by the last ps operation
    ps_todo,        \* the constraints add_constraint is still to be called with
    ps_steps,       \* number of step() calls that moved a particle (at most MaxSteps)
    ps_quiet,       \* number of steps since the last activation that ran and found
                    \* no particle moved above the rest threshold
    weapon,         \* library/weapon.rs: a Weapon accessory
    w_steps,        \* number of forces, dynamic steps and re-attachments of the weapon
    ragdoll,        \* ragdoll.rs: a Ragdoll under test
    rag_split,      \* the bones split_bone_from_parent has split off so far
    rag_calls,      \* number of calls made on the ragdoll (at most MaxRagdollCalls)
    figure,         \* library/stick_figure.rs: a StickFigure with its accessories
    clock,          \* renderer.time(), the sum of the frame times drawn
    calls,          \* number of calls made on the figure (at most MaxCalls)
    detached_at_death,  \* the accessories that were not attached when the current
                    \* (or last) ragdoll was started by set_state
    skel,           \* skeleton.rs: a Skeleton under test, built from a description
    skel_calls,     \* number of calls made on that skeleton (at most MaxSkeletonCalls)
    anim,           \* animation.rs: an Animator under test, made by an AnimatorBuilder
    anim_bones,     \* the frame bones the last Animator::update wrote
    anim_calls,     \* number of calls made on that animator (at most MaxAnimatorCalls)
    rigid,          \* rigid_body.rs: a RigidBody under test, built from a template
    rigid_calls,    \* number of calls made on the rigid body (at most MaxRigidCalls)
    hasher,         \* std HashMap's RandomState of this run, as the order in which
                    \* a map keyed by accessory names yields its entries
    aborted,        \* TRUE once a call has panicked: the program is gone
    op              \* the last operation performed, with its arguments

psVars == <<ps, ps_todo, ps_calls, ps_steps, ps_quiet>>

wVars == <<weapon, w_steps>>

ragVars == <<ragdoll, rag_split, rag_calls>>

figVars == <<figure, clock, calls, detached_at_death>>

skVars == <<skel, skel_calls>>

anVars == <<anim, anim_bones, anim_calls>>

rbVars == <<rigid, rigid_calls>>

\* what an operation on the particle system under test leaves alone
nonPsVars == <<wVars, ragVars, figVars, skVars, anVars, rbVars, hasher, aborted>>

\* what an operation on the weapon leaves alone
nonWVars == <<psVars, ragVars, figVars, skVars, anVars, rbVars, hasher, aborted>>

\* what an operation on the ragdoll under test leaves alone
nonRagVars == <<psVars, wVars, figVars, skVars, anVars, rbVars, hasher>>

\* what an operation on the stick figure leaves alone
nonFigVars == <<psVars, wVars, ragVars, skVars, anVars, rbVars, hasher>>

\* what an operation on the skeleton under test leaves alone
nonSkVars == <<psVars, wVars, ragVars, figVars, anVars, rbVars, hasher>>

\* what an operation on the animator under test leaves alone
nonAnVars == <<psVars, wVars, ragVars, figVars, skVars, rbVars, hasher, aborted>>

\* what an operation on the rigid body under test leaves alone
nonRbVars == <<psVars, wVars, ragVars, figVars, skVars, anVars, hasher, aborted>>

vars == <<psVars, wVars, ragVars, figVars, skVars, anVars, rbVars, hasher, aborted, op>>

(***************************************************************************)
(* Fixed-point arithmetic                                                  *)
(***************************************************************************)

\* one unit of length (f32 1.0) in model length units
Unit == 10 * 10

\* inverse mass 1.0 in model units
One == 10 * 10

Abs(a) == IF a < 0 THEN -a ELSE a

Min(a, b) == IF a < b THEN a ELSE b

Max(a, b) == IF a > b THEN a ELSE b

\* f32 division, rounded toward zero (b > 0)
Div(a, b) == IF a >= 0 THEN a \div b ELSE -((-a) \div b)

RECURSIVE SqrtIter(_, _)
SqrtIter(n, x) ==
    LET y == (x + n \div x) \div 2
    IN  IF y >= x THEN x ELSE SqrtIter(n, y)

\* f32::sqrt, rounded down
ISqrt(n) == IF n <= 0 THEN 0 ELSE SqrtIter(n, n)

(***************************************************************************)
(* Vec2 (util.rs)                                                          *)
(***************************************************************************)

Zero == <<0, 0>>

VAdd(a, b) == <<a[1] + b[1], a[2] + b[2]>>

VSub(a, b) == <<a[1] - b[1], a[2] - b[2]>>

VDot(a, b) == a[1] * b[1] + a[2] * b[2]

\* v * num / den for a scalar num / den
VMulDiv(v, num, den) == <<Div(v[1] * num, den), Div(v[2] * num, den)>>

VLen(v) == ISqrt(VDot(v, v))

\* Vec2::is_left: the sign of the 2D cross product of (joint - parent) with
\* (end - parent)
IsLeft(end, parent, joint) ==
    LET u == VSub(joint, parent)
        v == VSub(end, parent)
    IN  u[1] * v[2] - u[2] * v[1] > 0

\* Vec2::scale: the componentwise product with a facing (components +1 or -1)
VScale(v, unit) == <<v[1] * unit[1], v[2] * unit[2]>>

VFlipped(v) == <<v[2], v[1]>>

(***************************************************************************)
(* Angles, in milliradians; cosines and sines in thousandths               *)
(***************************************************************************)

\* std::f32::consts::PI
Pi == 3142

\* an angle brought into (-Pi, Pi]
WrapAngle(a) ==
    LET m == a % (2 * Pi)
    IN  IF m > Pi THEN m - 2 * Pi ELSE m

\* cos(x) for |x| <= Pi / 2 by its Taylor series in t = x * x
CosSeries(x) ==
    LET t  == (x * x) \div 1000
        t1 == (1000 * t) \div (2 * 1000)
        t2 == (t1 * t) \div (12 * 1000)
        t3 == (t2 * t) \div (30 * 1000)
        t4 == (t3 * t) \div (56 * 1000)
    IN  1000 - t1 + t2 - t3 + t4

\* cos(x) for 0 <= x <= Pi
CosFolded(x) ==
    IF 2 * x = Pi THEN 0
    ELSE IF 2 * x < Pi THEN CosSeries(x) ELSE -CosSeries(Pi - x)

\* f32::cos
ICos(a) == CosFolded(Abs(WrapAngle(a)))

\* f32::sin
ISin(a) == ICos(a - Pi \div 2)

VRotate(v, a) ==
    <<Div(v[1] * ICos(a) - v[2] * ISin(a), 1000),
      Div(v[1] * ISin(a) + v[2] * ICos(a), 1000)>>

\* Angle::facing(r).to_vec()
Facing(r) ==
    LET q == IF r > Pi THEN r - 2 * Pi ELSE r
    IN  IF q >= 0 THEN <<1, 1>> ELSE <<-1, 1>>

(***************************************************************************)
(* Particle (particle.rs)                                                  *)
(***************************************************************************)

ParticleWithInvMass(position, inv_mass) ==
    [ position       |-> position,
      prev_position  |-> position,
      rest_position  |-> position,
      constant_force |-> Zero,
      acceleration   |-> Zero,
      inv_mass       |-> inv_mass ]

ParticleNew(position) == ParticleWithInvMass(position, One)

SetInvmass(p, mass) == [p EXCEPT !.inv_mass = mass]

SetPosition(p, pos) == [p EXCEPT !.position = pos, !.prev_position = pos]

ParticleApplyForce(p, force) == [p EXCEPT !.position = VAdd(p.position, force)]

\* at_rest: |position - rest_position| > 0.125 (an eighth of a unit)
ParticleMoved(p) ==
    LET d == VSub(p.position, p.rest_position)
    IN  VDot(d, d) > (Unit * Unit) \div 64

\* at_rest's effect on the particle: the rest sample follows a moved particle
AtRestUpdate(p) ==
    IF ParticleMoved(p) THEN [p EXCEPT !.rest_position = p.position] ELSE p

(***************************************************************************)
(* Constraints (particle.rs)                                               *)
(***************************************************************************)

StickConstraint(name, a, b, rest_length, visual) ==
    [ typ |-> "Stick", name |-> name, a |-> a, b |-> b,
      rest_length |-> rest_length, visual |-> visual ]

AngularConstraint(name, p, e, j, rest_length, is_left) ==
    [ typ |-> "Angular", name |-> name, p |-> p, e |-> e, j |-> j,
      rest_length |-> rest_length, is_left |-> is_left, visual |-> FALSE ]

FirstParticle(c) == IF c.typ = "Stick" THEN c.a ELSE c.e

SecondParticle(c) == IF c.typ = "Stick" THEN c.b ELSE c.j

\* the correction delta * i * (len - rest) / (len * (i1 + i2)); a zero delta
\* gives a zero correction whatever the (finite) factor is
Correction(delta, i, len, rest, isum) ==
    IF len = 0 THEN Zero
    ELSE <<Div(Div(delta[1] * (len - rest), len) * i, isum),
           Div(Div(delta[2] * (len - rest), len) * i, isum)>>

\* the two particles a and b moved along delta by their shares of the
\* difference between the distance len and the rest length
Corrected(P, a, b, delta, len, rest_length) ==
    [P EXCEPT
        ![a].position = VAdd(P[a].position,
                             Correction(delta, P[a].inv_mass, len, rest_length,
                                        P[a].inv_mass + P[b].inv_mass)),
        ![b].position = VSub(P[b].position,
                             Correction(delta, P[b].inv_mass, len, rest_length,
                                        P[a].inv_mass + P[b].inv_mass))]

StickSolveAlong(c, P, delta) == Corrected(P, c.a, c.b, delta, VLen(delta), c.rest_length)

StickSolve(c, P) ==
    IF P[c.a].inv_mass + P[c.b].inv_mass > 0
    THEN StickSolveAlong(c, P, VSub(P[c.b].position, P[c.a].position))
    ELSE P

AngularSolveAt(c, P, delta, len) ==
    IF /\ len < c.rest_length
       /\ c.is_left = IsLeft(P[c.e].position, P[c.p].position, P[c.j].position)
    THEN Corrected(P, c.p, c.e, delta, len, c.rest_length)
    ELSE P

AngularSolveAlong(c, P, delta) == AngularSolveAt(c, P, delta, VLen(delta))

AngularSolve(c, P) ==
    IF P[c.p].inv_mass + P[c.e].inv_mass > 0
    THEN AngularSolveAlong(c, P, VSub(P[c.e].position, P[c.p].position))
    ELSE P

Solve(c, P) == IF c.typ = "Stick" THEN StickSolve(c, P) ELSE AngularSolve(c, P)

RECURSIVE SolveAll(_, _, _)
\* for c in constraints { c.solve(particles) }, from constraint k on
SolveAll(constraints, k, P) ==
    IF k > Len(constraints) THEN P
    ELSE SolveAll(constraints, k + 1, Solve(constraints[k], P))

(***************************************************************************)
(* Collider: the closure handed to step().  The library's closures         *)
(* (stick_figure.rs, weapon.rs, scarf.rs) move the particle into world     *)
(* space by an offset, ask the host's collider, and move the answer back;  *)
(* the skeleton's and the weapon's closures also set the inverse mass of a *)
(* particle that hit the floor to 0.5 once `settle` holds.  The host's     *)
(* collider is the floor of examples/stick_example.                        *)
(***************************************************************************)

NoCollider == [kind |-> "none", floor |-> 0, offset |-> Zero, settle |-> FALSE]

FloorCollider(floor, offset, settle) ==
    [kind |-> "floor", floor |-> floor, offset |-> offset, settle |-> settle]

\* LevelCollider::world: TRUE when p is past the floor
ColliderHits(col, p) ==
    col.kind = "floor" /\ p.position[2] + col.offset[2] > col.floor

Collide(col, p) ==
    IF ColliderHits(col, p)
    THEN LET q == [p EXCEPT !.position = <<p.position[1], col.floor - col.offset[2]>>]
         IN  IF col.settle THEN SetInvmass(q, One \div 2) ELSE q
    ELSE p

(***************************************************************************)
(* ParticleSystem (particle.rs)                                            *)
(***************************************************************************)

\* 10000.0, the sentinel the bounds are reset to
BoundsLimit == 10000 * Unit

SetMin(S) == CHOOSE x \in S : \A y \in S : x <= y

SetMax(S) == CHOOSE x \in S : \A y \in S : x >= y

BoundsOf(P) ==
    LET xs == {P[i].position[1] : i \in DOMAIN P}
        ys == {P[i].position[2] : i \in DOMAIN P}
    IN  << <<SetMin(xs \cup {BoundsLimit}), SetMin(ys \cup {BoundsLimit})>>,
           <<SetMax(xs \cup {-BoundsLimit}), SetMax(ys \cup {-BoundsLimit})>> >>

AccumulateForces(gravity, P) ==
    [i \in DOMAIN P |-> [P[i] EXCEPT !.acceleration = VAdd(gravity, P[i].constant_force)]]

\* one second (f32 1.0) in model time units
TicksPerSecond == 10 * 10 * 10

\* a Verlet update that forgets the inverse mass
VerletIgnoringMass(time_step, P) ==
    [i \in DOMAIN P |->
        LET p == P[i]
            change == VAdd(VSub(p.position, p.prev_position),
                           VMulDiv(VMulDiv(p.acceleration, time_step, TicksPerSecond),
                                   time_step, TicksPerSecond))
        IN  [p EXCEPT !.position = VAdd(p.position, change),
                      !.prev_position = p.position]]

Verlet(time_step, P) ==
    [i \in DOMAIN P |->
        LET p == P[i]
            change == VAdd(VSub(p.position, p.prev_position),
                           VMulDiv(VMulDiv(p.acceleration, time_step, TicksPerSecond),
                                   time_step, TicksPerSecond))
        IN  [p EXCEPT !.position = VAdd(p.position, VMulDiv(change, p.inv_mass, One)),
                      !.prev_position = p.position]]

\* the constraint phase of a pass over the particles C the collider phase
\* left, R being C after the rest test
RelaxFrom(C, R, constraints) ==
    [ moved     |-> \E i \in DOMAIN C : ParticleMoved(C[i]),
      collided  |-> R,
      bounds    |-> BoundsOf(C),
      particles |-> SolveAll(constraints, 1, R) ]

RelaxCollided(C, constraints) ==
    RelaxFrom(C, [i \in DOMAIN C |-> AtRestUpdate(C[i])], constraints)

\* one relaxation pass: collider and rest test per particle, then every constraint
Relax(P, constraints, collider) ==
    RelaxCollided([i \in DOMAIN P |-> Collide(collider, P[i])], constraints)

\* a pass r over n particles followed by the passes rest
SatisfyJoin(iterations, n, r, rest) ==
    [ active    |-> r.moved \/ rest.active,
      particles |-> rest.particles,
      bounds    |-> rest.bounds,
      calls     |-> n + rest.calls,
      collided  |-> IF iterations = 1 THEN r.collided ELSE rest.collided ]

RECURSIVE SatisfyConstraints(_, _, _, _, _)
RECURSIVE SatisfyAfter(_, _, _, _, _)
\* returns any_particle_active, the particles, the bounds, the number of collider
\* calls made, and the particles as the last pass's collider phase left them
SatisfyConstraints(iterations, P, constraints, bounds, collider) ==
    IF iterations = 0
    THEN [active |-> FALSE, particles |-> P, bounds |-> bounds, calls |-> 0, collided |-> P]
    ELSE SatisfyAfter(iterations, Len(P), Relax(P, constraints, collider),
                      constraints, collider)

\* the passes that follow the pass r
SatisfyAfter(iterations, n, r, constraints, collider) ==
    SatisfyJoin(iterations, n, r,
                SatisfyConstraints(iterations - 1, r.particles, constraints,
                                   r.bounds, collider))

\* the value activate() sets the activity counter to
ActivityMax == 10

PSNew(max_particles, iterations) ==
    [ particles   |-> [i \in 1..max_particles |-> ParticleNew(Zero)],
      constraints |-> <<>>,
      bounds      |-> <<Zero, Zero>>,
      iterations  |-> iterations,
      activity    |-> ActivityMax ]

\* an activity test that lets a sleeping system run
PSActiveAtZero(s) == s.activity >= 0

PSActive(s) == s.activity > 0

\* an activation that overshoots the counter's range
PSActivateOvershoot(s) == [s EXCEPT !.activity = ActivityMax + 1]

PSActivate(s) == [s EXCEPT !.activity = ActivityMax]

PSAddConstraint(s, c) == PSActivate([s EXCEPT !.constraints = Append(s.constraints, c)])

\* usize::saturating_sub(1)
SaturatingDec(n) == IF n > 0 THEN n - 1 ELSE 0

\* the number of collider calls, any_particle_active and the particles after the
\* last collider phase are returned beside the system for the properties to observe
\* a step that restores the activity when a particle moved
PSSteppedRestoring(s, r) ==
    [ system |-> [s EXCEPT !.particles = r.particles,
                           !.bounds = r.bounds,
                           !.activity = IF r.active THEN ActivityMax
                                        ELSE SaturatingDec(s.activity)],
      calls |-> r.calls,
      active |-> r.active,
      collided |-> r.collided ]

\* the system after a step whose constraint phase gave r
PSStepped(s, r) ==
    [ system |-> [s EXCEPT !.particles = r.particles,
                           !.bounds = r.bounds,
                           !.activity = IF r.active THEN s.activity
                                        ELSE SaturatingDec(s.activity)],
      calls |-> r.calls,
      active |-> r.active,
      collided |-> r.collided ]

PSStepFull(s, time_step, gravity, collider) ==
    IF PSActive(s)
    THEN PSStepped(s, SatisfyConstraints(s.iterations,
                          Verlet(time_step, AccumulateForces(gravity, s.particles)),
                          s.constraints, s.bounds, collider))
    ELSE [system |-> s, calls |-> 0, active |-> FALSE, collided |-> s.particles]

PSStep(s, time_step, gravity, collider) == PSStepFull(s, time_step, gravity, collider).system


(***************************************************************************)
(* RigidBody (rigid_body.rs)                                               *)
(***************************************************************************)

\* WEAPON_RIFLE_RIGID (weapon.rs)
RifleData ==
    [ points |-> << [name |-> "Center",   x |-> 14, y |-> 0],
                    [name |-> "Barrel",   x |-> 30, y |-> 0],
                    [name |-> "StockMid", x |-> 0,  y |-> 0],
                    [name |-> "StockLow", x |-> 0,  y |-> 7] >>,
      constraints |-> << [a |-> "Center",   b |-> "Barrel",   visible |-> TRUE],
                         [a |-> "Center",   b |-> "StockMid", visible |-> TRUE],
                         [a |-> "Center",   b |-> "StockLow", visible |-> TRUE],
                         [a |-> "StockMid", b |-> "StockLow", visible |-> TRUE],
                         [a |-> "StockLow", b |-> "Barrel",   visible |-> FALSE] >>,
      iks |-> << [bone |-> "L.Hand", x |-> 17, y |-> 1, positive |-> TRUE],
                 [bone |-> "R.Hand", x |-> 9,  y |-> 4, positive |-> TRUE] >> ]

\* points[name]: the template point's position and particle index
RigidPoint(data, name) ==
    LET i == CHOOSE k \in DOMAIN data.points : data.points[k].name = name
    IN  [pos |-> <<data.points[i].x * Unit, data.points[i].y * Unit>>, index |-> i]

RigidLines(data) ==
    [k \in DOMAIN data.constraints |->
        [ a |-> RigidPoint(data, data.constraints[k].a),
          b |-> RigidPoint(data, data.constraints[k].b),
          visible |-> data.constraints[k].visible ]]

RECURSIVE RigidAddConstraints(_, _, _, _)
RigidAddConstraints(data, lines, k, s) ==
    IF k > Len(lines) THEN s
    ELSE RigidAddConstraints(data, lines, k + 1,
            PSAddConstraint(s, StickConstraint(data.constraints[k].a,
                                               lines[k].a.index, lines[k].b.index,
                                               VLen(VSub(lines[k].a.pos, lines[k].b.pos)),
                                               lines[k].visible)))

\* the number of relaxation passes of a rigid body's particle system
RigidIterations == 4

RigidBodyNew(data) ==
    [ angle     |-> 0,
      position  |-> Zero,
      offset    |-> Zero,
      scale     |-> <<1, 1>>,
      lines     |-> RigidLines(data),
      iks       |-> data.iks,
      particles |-> RigidAddConstraints(data, RigidLines(data), 1,
                                        PSNew(Len(data.points), RigidIterations)) ]

RigidStepStatic(rb, p, offset, scale, angle) ==
    [rb EXCEPT !.position = p, !.offset = offset, !.scale = scale, !.angle = angle]

\* (p + offset).scale(scale).rotate(angle) + position
RigidTransform(rb, p) ==
    VAdd(VRotate(VScale(VAdd(p, rb.offset), rb.scale), rb.angle), rb.position)

RigidIksStatic(rb, offset) ==
    [k \in DOMAIN rb.iks |->
        [ bone     |-> rb.iks[k].bone,
          target   |-> VAdd(VScale(VRotate(VScale(VAdd(<<rb.iks[k].x * Unit,
                                                        rb.iks[k].y * Unit>>,
                                                       rb.offset),
                                                  rb.scale),
                                           rb.angle),
                                   VFlipped(rb.scale)),
                            offset),
          positive |-> rb.iks[k].positive ]]

RECURSIVE RigidPlaceLines(_, _, _)
\* make_dynamic's loop over the lines, from line k on
RigidPlaceLines(rb, k, P) ==
    IF k > Len(rb.lines) THEN P
    ELSE LET a == rb.lines[k].a
             b == rb.lines[k].b
             Pa == [P  EXCEPT ![a.index] = SetPosition(@, RigidTransform(rb, a.pos))]
             Pb == [Pa EXCEPT ![b.index] = SetPosition(@, RigidTransform(rb, b.pos))]
             Pc == [Pb EXCEPT ![a.index] = SetInvmass(@, One)]
             Pd == [Pc EXCEPT ![b.index] = SetInvmass(@, One)]
         IN  RigidPlaceLines(rb, k + 1, Pd)

RigidMakeDynamic(rb) ==
    LET s == PSActivate(rb.particles)
    IN  [rb EXCEPT !.particles = [s EXCEPT !.particles = RigidPlaceLines(rb, 1, s.particles)]]

RigidApplyDynamicForce(rb, force) ==
    LET s == PSActivate(rb.particles)
        P == [s.particles EXCEPT ![1] = ParticleApplyForce(@, force)]
    IN  [rb EXCEPT !.particles =
            [s EXCEPT !.particles = [i \in DOMAIN P |-> SetInvmass(P[i], One)]]]

RigidStepDynamic(rb, time_step, gravity, collision) ==
    [rb EXCEPT !.particles = PSStep(rb.particles, time_step, gravity, collision)]

(***************************************************************************)
(* Weapon (library/weapon.rs)                                              *)
(***************************************************************************)

WeaponNew(model) ==
    [ kind             |-> "Weapon",
      bone             |-> "Root",
      has_ragdoll      |-> FALSE,
      ragdoll_duration |-> 0,
      gravity          |-> Zero,
      direction        |-> 0,
      recoil           |-> 0,
      rigid            |-> RigidBodyNew(model) ]

WeaponSetRecoil(w, recoil) == [w EXCEPT !.recoil = recoil]

WeaponSetAimDirection(w, direction) == [w EXCEPT !.direction = direction]

WeaponSetBone(w, bone) == [w EXCEPT !.bone = bone]

\* an attach that leaves has_ragdoll as it is
WeaponAttachKeepingRagdoll(w) == [w EXCEPT !.ragdoll_duration = 0]

WeaponAttach(w) == [w EXCEPT !.ragdoll_duration = 0, !.has_ragdoll = FALSE]

WeaponAttached(w) == ~w.has_ragdoll

\* a detach that samples the particles again on a detached weapon
WeaponDetachResampling(w) ==
    [w EXCEPT !.has_ragdoll = TRUE, !.rigid = RigidMakeDynamic(w.rigid)]

WeaponDetach(w) ==
    IF ~w.has_ragdoll
    THEN [w EXCEPT !.has_ragdoll = TRUE, !.rigid = RigidMakeDynamic(w.rigid)]
    ELSE w

WeaponApplyForce(w, force) ==
    [w EXCEPT !.ragdoll_duration = 0, !.rigid = RigidApplyDynamicForce(w.rigid, force)]

\* shoulder is skeleton.bone_end(Space::Animation, self.bone)
WeaponGetIks(w, shoulder) ==
    IF w.has_ragdoll THEN <<>> ELSE RigidIksStatic(w.rigid, shoulder)

\* shoulder is skeleton.bone_end(Space::World, self.bone)
WeaponFixate(w, shoulder) ==
    IF ~w.has_ragdoll
    THEN [w EXCEPT !.rigid = RigidStepStatic(w.rigid, shoulder, <<-w.recoil, 0>>,
                                             VFlipped(Facing(w.direction + Pi \div 2)),
                                             w.direction)]
    ELSE w

WeaponSetGravity(w, gravity) == [w EXCEPT !.gravity = gravity]

\* the closure Weapon::step hands to step_dynamic, over the host's floor
WeaponCollider(floor, ragdoll_duration) ==
    FloorCollider(floor, Zero, ragdoll_duration > TicksPerSecond)

\* dt is renderer.dt(), floor the host collider's floor
WeaponStep(w, dt, floor) ==
    IF w.has_ragdoll
    THEN [w EXCEPT !.ragdoll_duration = w.ragdoll_duration + dt,
                   !.rigid = RigidStepDynamic(w.rigid, dt, w.gravity,
                                 WeaponCollider(floor, w.ragdoll_duration + dt))]
    ELSE w

(***************************************************************************)
(* Option<T>: None is the empty sequence, Some(x) the one-element sequence *)
(***************************************************************************)

None == <<>>

Some(x) == <<x>>

IsSome(o) == o # <<>>

Unwrap(o) == o[1]

(***************************************************************************)
(* Inverse trigonometry, angles in milliradians                            *)
(***************************************************************************)

RECURSIVE ACosSearch(_, _, _)
\* bisection on [lo, hi], where the cosine falls from above c to below c
ACosSearch(c, lo, hi) ==
    IF hi - lo <= 1
    THEN IF ICos(lo) - c <= c - ICos(hi) THEN lo ELSE hi
    ELSE LET mid == (lo + hi) \div 2
         IN  IF ICos(mid) >= c THEN ACosSearch(c, mid, hi) ELSE ACosSearch(c, lo, mid)

\* f32::acos of a cosine in thousandths
IACos(c) ==
    IF c >= 1000 THEN 0
    ELSE IF c <= -1000 THEN Pi
    ELSE ACosSearch(c, 0, Pi)

\* the angle of a direction with |xs| >= |ys|, a being the arcsine of ys / len
Atan2Flat(xs, ys, a) ==
    IF xs >= 0 THEN a
    ELSE IF ys >= 0 THEN Pi - a ELSE -Pi - a

\* the angle of a direction with |xs| < |ys|, b being the arccosine of xs / len
Atan2Steep(ys, b) == IF ys >= 0 THEN b ELSE -b

\* the angle of the direction (xs, ys) of length len
Atan2Of(xs, ys, len) ==
    IF len = 0 THEN 0
    ELSE IF Abs(xs) >= Abs(ys)
         THEN Atan2Flat(xs, ys, Pi \div 2 - IACos(Div(1000 * ys, len)))
         ELSE Atan2Steep(ys, IACos(Div(1000 * xs, len)))

Atan2Scaled(xs, ys) == Atan2Of(xs, ys, ISqrt(xs * xs + ys * ys))

\* f32::atan2(y, x); atan2(0, 0) is 0.  Long vectors are scaled down first.
IAtan2(y, x) ==
    Atan2Scaled(Div(x, Max(Abs(x), Abs(y)) \div 20000 + 1),
                Div(y, Max(Abs(x), Abs(y)) \div 20000 + 1))

\* Angle::offset(r, distance)
AngleOffset(r, distance) ==
    <<Div(ICos(r) * distance, 1000), Div(ISin(r) * distance, 1000)>>

(***************************************************************************)
(* Animation (animation.rs)                                                *)
(***************************************************************************)

D90 == Pi \div 2

D45 == D90 \div 2

D22 == D45 \div 2

D12 == D22 \div 2

\* a time given in hundredths of a second
Centis(n) == n * (TicksPerSecond \div 100)

\* an angle of n hundredths of d
Pct(d, n) == Div(d * n, 100)

Key(time, values) == [time |-> time, values |-> values]

Val(bone, angle) == [bone |-> bone, angle |-> angle]

\* IDLE_ANIMATION
IdleAnimation ==
    [ duration |-> Centis(125),
      key_frames |-> <<
        Key(0, << Val("L.Leg", -D45), Val("L.Foot", D45),
                  Val("R.Leg", 0), Val("R.Foot", D45),
                  Val("R.Arm", Pct(D90, 125)), Val("R.Hand", -D90),
                  Val("L.Arm", -Pct(D90, 50)), Val("L.Hand", -Pct(D45, 165)) >>),
        Key(Centis(125) \div 2,
               << Val("L.Leg", -D45), Val("L.Foot", D45),
                  Val("R.Leg", 0), Val("R.Foot", D45),
                  Val("R.Arm", Pct(D90, 100)), Val("R.Hand", -D90),
                  Val("L.Arm", -Pct(D90, 75)), Val("L.Hand", -Pct(D45, 165)) >>) >> ]

\* JUMP_ANIMATION
JumpAnimation ==
    [ duration |-> Centis(60),
      key_frames |-> <<
        Key(0, << Val("L.Leg", -Pct(D12, 350) - D22), Val("L.Foot", Pct(D22, 500)),
                  Val("R.Leg", -Pct(D12, 500) + D22), Val("R.Foot", Pct(D22, 500)),
                  Val("R.Arm", -Pct(D45, 125)), Val("R.Hand", -Pct(D45, 125)),
                  Val("L.Arm", Pct(D45, 105)), Val("L.Hand", Pct(D45, 105)) >>),
        Key(Centis(30),
               << Val("R.Leg", -Pct(D12, 500) - D22), Val("R.Foot", Pct(D22, 400)),
                  Val("L.Leg", -Pct(D12, 350) + D22), Val("L.Foot", Pct(D22, 400)),
                  Val("R.Arm", -Pct(D45, 50)), Val("R.Hand", -Pct(D45, 50)),
                  Val("L.Arm", Pct(D45, 40)), Val("L.Hand", Pct(D45, 40)) >>) >> ]

\* RUN_ANIMATION
RunAnimation ==
    [ duration |-> Centis(100),
      key_frames |-> <<
        Key(0, << Val("L.Leg", -Pct(D45, 115)), Val("L.Foot", Pct(D45, 195)),
                  Val("R.Leg", -D12), Val("R.Foot", D45),
                  Val("R.Arm", Pct(D90, 125)), Val("R.Hand", -Pct(D90, 90)),
                  Val("L.Arm", -Pct(D90, 75)), Val("L.Hand", -Pct(D90, 90)) >>),
        Key(Centis(30),
               << Val("L.Leg", -Pct(D45, 95)), Val("L.Foot", Pct(D12, 50)),
                  Val("R.Leg", D45), Val("R.Foot", Pct(D45, 135)),
                  Val("R.Arm", Pct(D90, 195)), Val("R.Hand", -Pct(D90, 90)),
                  Val("L.Arm", -Pct(D90, 145)), Val("L.Hand", -Pct(D90, 90)) >>),
        Key(Centis(50),
               << Val("R.Leg", -Pct(D45, 115)), Val("R.Foot", Pct(D45, 195)),
                  Val("L.Leg", -D12), Val("L.Foot", D45),
                  Val("R.Arm", Pct(D90, 125)), Val("R.Hand", -Pct(D90, 90)),
                  Val("L.Arm", -Pct(D90, 75)), Val("L.Hand", -Pct(D90, 90)) >>),
        Key(Centis(80),
               << Val("R.Leg", -Pct(D45, 95)), Val("R.Foot", Pct(D12, 50)),
                  Val("L.Leg", D45), Val("L.Foot", Pct(D45, 135)),
                  Val("R.Arm", Pct(D90, 50)), Val("R.Hand", -Pct(D90, 90)),
                  Val("L.Arm", -Pct(D90, 5)), Val("L.Hand", -Pct(D90, 90)) >>) >> ]

\* WALK_BACKWARDS_ANIMATION
WalkBackwardsAnimation ==
    [ duration |-> Centis(80),
      key_frames |-> <<
        Key(0, << Val("L.Leg", -Pct(D12, 125)), Val("L.Foot", Pct(D45, 150)),
                  Val("R.Leg", Pct(D12, 25)), Val("R.Foot", Pct(D22, 25)),
                  Val("R.Arm", Pct(D90, 125)), Val("R.Hand", -Pct(D90, 40)),
                  Val("L.Arm", -Pct(D90, 85)), Val("L.Hand", -Pct(D90, 50)) >>),
        Key(Centis(24),
               << Val("L.Leg", -Pct(D22, 125)), Val("L.Foot", D12),
                  Val("R.Leg", D12), Val("R.Foot", D22),
                  Val("R.Arm", Pct(D90, 150)), Val("R.Hand", -Pct(D90, 50)),
                  Val("L.Arm", -Pct(D90, 115)), Val("L.Hand", -Pct(D90, 50)) >>),
        Key(Centis(40),
               << Val("R.Leg", -Pct(D12, 125)), Val("R.Foot", Pct(D45, 150)),
                  Val("L.Leg", Pct(D12, 25)), Val("L.Foot", Pct(D22, 25)),
                  Val("R.Arm", Pct(D90, 125)), Val("R.Hand", -Pct(D90, 40)),
                  Val("L.Arm", -Pct(D90, 85)), Val("L.Hand", -Pct(D90, 50)) >>),
        Key(Centis(64),
               << Val("R.Leg", -Pct(D22, 125)), Val("R.Foot", D12),
                  Val("L.Leg", D12), Val("L.Foot", D22),
                  Val("R.Arm", Pct(D90, 100)), Val("R.Hand", -Pct(D90, 60)),
                  Val("L.Arm", -Pct(D90, 60)), Val("L.Hand", -Pct(D90, 60)) >>) >> ]

\* fn cubic_bezier; t in thousandths
CubicBezier(p0, p1, p2, p3, t) ==
    LET c == 3 * (p1 - p2) + p3 - p0
        b == 2 * p0 - 5 * p1 + 4 * p2 - p3 + Div(t * c, 1000)
        a == p2 - p0 + Div(t * b, 1000)
    IN  p1 + Div(t * a, 2000)

\* the statics an AnimationInstance refers to (its data: &'static AnimationData)
AnimationData(name) ==
    CASE name = "IDLE_ANIMATION"           -> IdleAnimation
      [] name = "JUMP_ANIMATION"           -> JumpAnimation
      [] name = "RUN_ANIMATION"            -> RunAnimation
      [] name = "WALK_BACKWARDS_ANIMATION" -> WalkBackwardsAnimation

\* AnimationInstance::new; speed in hundredths, blend in thousandths, key_index from 1
AnimationInstanceNew(data, speed) ==
    [time |-> 0, blend |-> 0, speed |-> speed, key_index |-> 1, data |-> data]

\* (key_index + 1) % key_count, for indices counted from 1
NextKeyIn(data, key_index) == (key_index % Len(data.key_frames)) + 1

NextKey(a) == NextKeyIn(AnimationData(a.data), a.key_index)

\* the second half of AnimationInstance::update: the blend between the key
\* frame reached and the one after it
AnimationInstanceBlendAt(a, data) ==
    LET prev  == data.key_frames[a.key_index].time
        next  == data.key_frames[NextKeyIn(data, a.key_index)].time
        delta == ((next - prev) + data.duration) % data.duration
        into  == ((a.time - prev) + data.duration) % data.duration
    IN  [a EXCEPT !.blend = IF delta = 0 THEN 1000 ELSE Div(1000 * into, delta)]

\* the first half: time1 is the time advanced by dt, next_offset the time of
\* the next key frame
AnimationInstanceAdvance(a, data, time1, next_offset) ==
    IF next_offset = 0 /\ time1 >= data.duration
    THEN [a EXCEPT !.time = time1 - data.duration, !.key_index = 1]
    ELSE IF next_offset > 0 /\ time1 >= next_offset
    THEN [a EXCEPT !.time = time1, !.key_index = NextKeyIn(data, a.key_index)]
    ELSE [a EXCEPT !.time = time1]

AnimationInstanceUpdateIn(a, dt, data) ==
    AnimationInstanceBlendAt(
        AnimationInstanceAdvance(a, data,
            IF a.speed > 0 THEN a.time + Div(dt * a.speed, One) ELSE a.time,
            data.key_frames[NextKeyIn(data, a.key_index)].time),
        data)

\* AnimationInstance::update
AnimationInstanceUpdate(a, dt) == AnimationInstanceUpdateIn(a, dt, AnimationData(a.data))

AnimationInstanceReset(a) ==
    [a EXCEPT !.time = 0, !.blend = 0, !.speed = 0, !.key_index = 1]

\* the first value for the bone in a key frame's list, if any
ValueOf(values, bone) ==
    LET hits == SelectSeq(values, LAMBDA v : v.bone = bone)
    IN  IF hits = <<>> THEN None ELSE Some(hits[1].angle)

\* the blended values between two key frames' values
AnimationBlendOf(prev_values, next_values, blend) ==
    [k \in DOMAIN prev_values |->
        LET p == prev_values[k]
            n == ValueOf(next_values, p.bone)
        IN  IF IsSome(n)
            THEN Val(p.bone, CubicBezier(p.angle, p.angle, Unwrap(n), Unwrap(n), blend))
            ELSE p]

AnimationBlendIn(a, data) ==
    AnimationBlendOf(data.key_frames[a.key_index].values,
                     data.key_frames[NextKeyIn(data, a.key_index)].values, a.blend)

\* AnimationInstance::blend
AnimationBlend(a) == AnimationBlendIn(a, AnimationData(a.data))

\* apply_to with the blended values
AnimationApplyValues(values, bones, factor) ==
    [k \in DOMAIN bones |->
        LET v == ValueOf(values, bones[k].bone)
        IN  IF IsSome(v)
            THEN Val(bones[k].bone, bones[k].angle + Div(Unwrap(v) * factor, 1000))
            ELSE bones[k]]

\* AnimationInstance::apply_to; bones is the list of (name, angle), factor in thousandths
AnimationApplyTo(a, bones, factor) == AnimationApplyValues(AnimationBlend(a), bones, factor)

\* AnimatorState: its animations, in order
AnimatorStateWith(data) == [animations |-> <<AnimationInstanceNew(data, One)>>]

AnimatorStateUpdate(st, dt, speed) ==
    [st EXCEPT !.animations =
        [k \in DOMAIN st.animations |->
            AnimationInstanceUpdate([st.animations[k] EXCEPT !.speed = speed], dt)]]

AnimatorStateReset(st) ==
    [st EXCEPT !.animations =
        [k \in DOMAIN st.animations |-> AnimationInstanceReset(st.animations[k])]]

RECURSIVE AnimatorStateApplyFrom(_, _, _, _)
AnimatorStateApplyFrom(st, k, factor, bones) ==
    IF k > Len(st.animations) THEN bones
    ELSE AnimatorStateApplyFrom(st, k + 1, factor,
                                AnimationApplyTo(st.animations[k], bones, factor))

AnimatorStateApplyToBones(st, factor, bones) == AnimatorStateApplyFrom(st, 1, factor, bones)

\* AnimatorBuilder::new().build(): HashMaps are functions over their key sets
AnimatorEmpty ==
    [ default_blend  |-> 0,
      blends         |-> << >>,
      speeds         |-> << >>,
      states         |-> << >>,
      blend_duration |-> 0,
      blend_timer    |-> 0,
      previous       |-> None,
      current        |-> None ]

\* the animator StickFigure::from_skeleton builds
FigureAnimator ==
    [ AnimatorEmpty EXCEPT
        !.states = [n \in {"Idle", "Jump", "Run", "Back"} |->
                        AnimatorStateWith(CASE n = "Idle" -> "IDLE_ANIMATION"
                                            [] n = "Jump" -> "JUMP_ANIMATION"
                                            [] n = "Run"  -> "RUN_ANIMATION"
                                            [] n = "Back" -> "WALK_BACKWARDS_ANIMATION")],
        !.blends = [k \in { <<"*", "Back">>, <<"*", "Idle">>,
                            <<"Jump", "Idle">>, <<"Jump", "Back">> } |->
                        CASE k = <<"*", "Back">>    -> Centis(5)
                          [] k = <<"*", "Idle">>    -> Centis(20)
                          [] k = <<"Jump", "Idle">> -> Centis(10)
                          [] k = <<"Jump", "Back">> -> Centis(20)],
        !.default_blend = Centis(10) ]

\* Animator::set_speed: insert or overwrite
AnimatorSetSpeed(an, state, factor) ==
    [an EXCEPT !.speeds = [n \in DOMAIN an.speeds \cup {state} |->
                              IF n = state THEN factor ELSE an.speeds[n]]]

\* the blend duration transition_to looks up
BlendLookup(an, previous, state) ==
    IF <<previous, state>> \in DOMAIN an.blends THEN an.blends[<<previous, state>>]
    ELSE IF <<"*", state>> \in DOMAIN an.blends THEN an.blends[<<"*", state>>]
    ELSE IF <<previous, "*">> \in DOMAIN an.blends THEN an.blends[<<previous, "*">>]
    ELSE an.default_blend

AnimatorTransitionTo(an, state) ==
    IF an.current = Some(state) THEN an
    ELSE IF state \notin DOMAIN an.states THEN an
    ELSE [an EXCEPT !.states[state] = AnimatorStateReset(@),
                    !.previous = an.current,
                    !.current = Some(state),
                    !.blend_duration =
                        IF IsSome(an.current) THEN BlendLookup(an, Unwrap(an.current), state)
                        ELSE an.default_blend,
                    !.blend_timer = 0]

\* the speed update() reads: speeds.get(state).unwrap_or(1.0)
AnimatorSpeed(an, state) == IF state \in DOMAIN an.speeds THEN an.speeds[state] ELSE One

\* the blend factor of Animator::update.  With a blend duration of 0 the factor
\* is 0/0, which only the comparison 1 - f > 0 sees (and finds false) because
\* no state can be current then; the model takes 0 for it.
BlendFactor(an) ==
    IF an.blend_duration = 0 THEN 0
    ELSE CubicBezier(0, 0, 1000, 1000, Div(1000 * an.blend_timer, an.blend_duration))

\* one state of the animator is updated and applied to the bones
AnimatorRun(r, state, dt, factor) ==
    LET an == r.animator
        st == AnimatorStateUpdate(an.states[state], dt, AnimatorSpeed(an, state))
    IN  [animator |-> [an EXCEPT !.states[state] = st],
         bones    |-> AnimatorStateApplyToBones(st, factor, r.bones)]

\* an update that keeps advancing and applying the previous state after the
\* blend has finished
AnimatorFadeForever(r, dt) ==
    IF /\ IsSome(r.animator.previous)
       /\ Unwrap(r.animator.previous) \in DOMAIN r.animator.states
       /\ r.animator.blend_duration # 0
    THEN AnimatorRun(r, Unwrap(r.animator.previous), dt, 1000 - BlendFactor(r.animator))
    ELSE r

\* the previous state fades out while the blend lasts
AnimatorFade(r, dt) ==
    IF /\ IsSome(r.animator.previous)
       /\ Unwrap(r.animator.previous) \in DOMAIN r.animator.states
       /\ r.animator.blend_duration # 0
       /\ 1000 - BlendFactor(r.animator) > 0
    THEN AnimatorRun(r, Unwrap(r.animator.previous), dt, 1000 - BlendFactor(r.animator))
    ELSE r

\* the current state plays
AnimatorPlay(r, dt) ==
    IF IsSome(r.animator.current) /\ Unwrap(r.animator.current) \in DOMAIN r.animator.states
    THEN AnimatorRun(r, Unwrap(r.animator.current), dt, BlendFactor(r.animator))
    ELSE r

\* Animator::update; gives the animator and the bone angles after it
AnimatorUpdate(an, dt, bones) ==
    AnimatorPlay(
        AnimatorFade([animator |-> [an EXCEPT !.blend_timer =
                                        Min(an.blend_timer + dt, an.blend_duration)],
                      bones    |-> bones],
                     dt),
        dt)


(***************************************************************************)
(* Skeleton (skeleton.rs)                                                  *)
(***************************************************************************)

\* the parent index of a bone without parent (255 in the source, where bones
\* are counted from 0; here they are counted from 1)
NoBone == 0

\* SkeletalBone: (name, (parent, length, angle, ragdoll_inv_mass, min, max))
SkeletalBone(name, parent, length, angle, inv_mass, min_angle, max_angle) ==
    [ name |-> name, parent |-> parent, length |-> length, angle |-> angle,
      inv_mass |-> inv_mass, min_angle |-> min_angle, max_angle |-> max_angle ]

\* DEFAULT_FIGURE_SKELETON (library/stick_figure.rs)
DefaultFigureSkeleton ==
    [ bones |-> <<
        SkeletalBone("Root",   "Root",  0,         -D90, 98,  None, None),
        SkeletalBone("Back",   "Root",  18 * Unit, 0,    99,  None, None),
        SkeletalBone("Head",   "Back",  10 * Unit, 0,    99,  None, None),
        SkeletalBone("R.Arm",  "Back",  9 * Unit,  D90,  One, None, None),
        SkeletalBone("R.Hand", "R.Arm", 13 * Unit, 0,    One, Some(0), Some(Pct(D90, 190))),
        SkeletalBone("L.Arm",  "Back",  9 * Unit,  -D90, One, None, None),
        SkeletalBone("L.Hand", "L.Arm", 13 * Unit, 0,    One, Some(0), Some(Pct(D90, 190))),
        SkeletalBone("Hip",    "Root",  0,         Pi,   One, None, None),
        SkeletalBone("R.Leg",  "Hip",   13 * Unit, 0,    99,  None, None),
        SkeletalBone("R.Foot", "R.Leg", 14 * Unit, 0,    One, Some(-Pct(D90, 190)), Some(0)),
        SkeletalBone("L.Leg",  "Hip",   13 * Unit, 0,    99,  None, None),
        SkeletalBone("L.Foot", "L.Leg", 14 * Unit, 0,    One, Some(-Pct(D90, 190)), Some(0)) >>,
      ragdoll_parents |-> <<
        [name |-> "L.Leg", parent |-> "Root"],
        [name |-> "R.Leg", parent |-> "Root"] >>,
      constraints |-> <<
        [typ |-> "Stick", parent |-> "Back", child |-> "L.Leg"],
        [typ |-> "Stick", parent |-> "Back", child |-> "R.Leg"],
        [typ |-> "Angular", parent |-> "Root", joint |-> "Back", child |-> "Head",
         left |-> Pi - D45, right |-> Pi - D45] >> ]

\* the first index in 1..Len(seq) whose element satisfies Test, else NoBone
FirstIndex(seq, Test(_)) ==
    LET hits == { i \in DOMAIN seq : Test(seq[i]) }
    IN  IF hits = {} THEN NoBone ELSE CHOOSE i \in hits : \A j \in hits : i <= j

\* the elements of a set of indices, in increasing order
RECURSIVE Ascending(_)
Ascending(S) ==
    IF S = {} THEN <<>>
    ELSE LET m == CHOOSE i \in S : \A j \in S : i <= j
         IN  <<m>> \o Ascending(S \ {m})

\* SkeletalData::to_internal_bones
ToInternalBones(data) ==
    LET ParentOf(index) ==
            FirstIndex(data.bones, LAMBDA p : /\ p.name = data.bones[index].parent
                                              /\ p.name # data.bones[index].name)
        RagdollParentOf(index) ==
            LET links == SelectSeq(data.ragdoll_parents,
                                   LAMBDA l : /\ l.name = data.bones[index].name
                                              /\ \E i \in DOMAIN data.bones :
                                                    data.bones[i].name = l.parent)
            IN  IF links = <<>> THEN ParentOf(index)
                ELSE FirstIndex(data.bones, LAMBDA p : p.name = links[Len(links)].parent)
    IN  [index \in DOMAIN data.bones |->
            [ index           |-> index,
              parent          |-> ParentOf(index),
              ragdoll_parent  |-> RagdollParentOf(index),
              children        |-> Ascending({ o \in DOMAIN data.bones :
                                                 /\ ParentOf(o) = index
                                                 /\ o # ParentOf(o) }),
              angle           |-> 0,
              animation_angle |-> 0,
              offset_angle    |-> 0,
              start           |-> Zero,
              end             |-> Zero,
              min_angle       |-> data.bones[index].min_angle,
              max_angle       |-> data.bones[index].max_angle,
              data            |-> data.bones[index] ]]

\* SkeletalData::to_animation_bones (and reset_animation_bones): the rest angles
ToAnimationBones(data) == [k \in DOMAIN data.bones |-> Val(data.bones[k].name, data.bones[k].angle)]

RECURSIVE VisitBones(_, _, _)
\* Skeleton::visit_bones: the order in which the callback sees the bones
VisitBones(bones, indices, children_first) ==
    IF indices = <<>> THEN <<>>
    ELSE LET i    == Head(indices)
             sub  == VisitBones(bones, bones[i].children, children_first)
             here == IF children_first THEN sub \o <<i>> ELSE <<i>> \o sub
         IN  here \o VisitBones(bones, Tail(indices), children_first)

SkeletonNew(data) ==
    LET bones == ToInternalBones(data)
    IN  [ data                |-> data,
          bones               |-> bones,
          child_first_indices |-> VisitBones(bones, <<1>>, TRUE),
          child_last_indices  |-> VisitBones(bones, <<1>>, FALSE),
          local_transform     |-> <<1, 1>>,
          world_position      |-> Zero,
          bounds              |-> <<Zero, Zero>>,
          bone_rest_angles    |-> ToAnimationBones(data),
          animator            |-> AnimatorEmpty,
          ragdoll             |-> None ]

\* name_to_index.get(name): the bone's index, or NoBone for an unknown name
NameToIndex(sk, name) == FirstIndex(sk.bones, LAMBDA b : b.data.name = name)

SkeletonHasRagdoll(sk) == IsSome(sk.ragdoll)

SkeletonSetAnimator(sk, animator) == [sk EXCEPT !.animator = animator]

\* a set_local_transform without the ragdoll guard
SkeletonSetLocalTransformUnguarded(sk, transform) ==
    [sk EXCEPT !.local_transform = transform]

SkeletonSetLocalTransform(sk, transform) ==
    IF sk.ragdoll = None THEN [sk EXCEPT !.local_transform = transform] ELSE sk

SkeletonSetWorldOffset(sk, p) ==
    IF sk.ragdoll = None THEN [sk EXCEPT !.world_position = p] ELSE sk

ToLocal(sk, w) == VSub(w, sk.world_position)

ToWorld(sk, p) == VAdd(p, sk.world_position)

\* the bone of the given length, angle and start
BonePlaced(bone_angle, start, length) ==
    [angle |-> bone_angle, start |-> start,
     end |-> IF length > 0 THEN VAdd(start, AngleOffset(bone_angle, length)) ELSE start]

\* Skeleton::calculate_bone: (bone_angle, start, end)
CalculateBone(sk, index) ==
    IF sk.bones[index].parent = NoBone
    THEN BonePlaced(sk.bones[index].angle + sk.bones[index].offset_angle, Zero,
                    sk.bones[index].data.length)
    ELSE BonePlaced(sk.bones[sk.bones[index].parent].angle
                        + sk.bones[index].angle + sk.bones[index].offset_angle,
                    sk.bones[sk.bones[index].parent].end,
                    sk.bones[index].data.length)

\* Bone::set
BoneSet(bone, values) ==
    [bone EXCEPT !.angle = values.angle, !.animation_angle = values.angle,
                 !.start = values.start, !.end = values.end]

\* Bone::set_ik
BoneSetIk(bone, values) ==
    [bone EXCEPT !.angle = values.angle, !.start = values.start, !.end = values.end]

\* Bone::set_angle
BoneSetAngle(bone, r) == [bone EXCEPT !.offset_angle = r]

\* the component-wise minimum and maximum the bounds are folded with
VMin(a, b) == <<Min(a[1], b[1]), Min(a[2], b[2])>>

VMax(a, b) == <<Max(a[1], b[1]), Max(a[2], b[2])>>

\* the bounds take in the bone i as it was, then the bone is set
ArrangeBone(sk, i) ==
    [sk EXCEPT !.bounds = <<VMin(VMin(sk.bounds[1], sk.bones[i].start), sk.bones[i].end),
                            VMax(VMax(sk.bounds[2], sk.bones[i].start), sk.bones[i].end)>>,
               !.bones[i] = BoneSet(sk.bones[i], CalculateBone(sk, i))]

RECURSIVE ArrangeBones(_, _)
\* the second loop of Skeleton::step over child_last_indices, from position k on
ArrangeBones(sk, k) ==
    IF k > Len(sk.child_last_indices) THEN sk
    ELSE ArrangeBones(ArrangeBone(sk, sk.child_last_indices[k]), k + 1)

\* a step whose first loop leaves the angles of the bones as they were
SkeletonAnimatedKeeping(sk, u) ==
    [sk EXCEPT
        !.bounds = << <<BoundsLimit, BoundsLimit>>, <<-BoundsLimit, -BoundsLimit>> >>,
        !.bone_rest_angles = u.bones,
        !.animator = u.animator]

\* the bones and rest angles reset to what the animator's update u gave
SkeletonAnimated(sk, u) ==
    [sk EXCEPT
        !.bounds = << <<BoundsLimit, BoundsLimit>>, <<-BoundsLimit, -BoundsLimit>> >>,
        !.bone_rest_angles = u.bones,
        !.animator = u.animator,
        !.bones = [i \in DOMAIN sk.bones |->
                      IF \E k \in DOMAIN sk.child_last_indices :
                              sk.child_last_indices[k] = i
                      THEN [sk.bones[i] EXCEPT !.angle = u.bones[i].angle]
                      ELSE sk.bones[i]]]

\* the animated branch of Skeleton::step
SkeletonAnimate(sk, dt) ==
    ArrangeBones(
        SkeletonAnimated(sk, AnimatorUpdate(sk.animator, dt, ToAnimationBones(sk.data))), 1)

(***************************************************************************)
(* Ragdoll (ragdoll.rs)                                                    *)
(***************************************************************************)

RECURSIVE JointConstraints(_, _, _)
\* the constraint indices rebuild_constraints pushes for joint j, from index k on
JointConstraints(constraints, j, k) ==
    IF k > Len(constraints) THEN <<>>
    ELSE (IF FirstParticle(constraints[k]) = j THEN <<k>> ELSE <<>>)
         \o (IF SecondParticle(constraints[k]) = j THEN <<k>> ELSE <<>>)
         \o JointConstraints(constraints, j, k + 1)

\* Ragdoll::rebuild_constraints: a name maps to the last constraint carrying it
RebuildConstraints(rag) ==
    [rag EXCEPT
        !.joint_constraint_map =
            [j \in DOMAIN rag.joints |-> JointConstraints(rag.constraints, j, 1)],
        !.constraint_name_map =
            [n \in { rag.constraints[k].name : k \in DOMAIN rag.constraints } |->
                CHOOSE k \in DOMAIN rag.constraints :
                    /\ rag.constraints[k].name = n
                    /\ \A m \in DOMAIN rag.constraints :
                          rag.constraints[m].name = n => m <= k],
        !.constraint_names =
            [k \in DOMAIN rag.constraints |-> rag.constraints[k].name]]

\* the number of quiet steps after which a ragdoll rests
StepsUntilRest == 10

RagdollNew(joints, constraints) ==
    RebuildConstraints(
        [ joints               |-> joints,
          constraints          |-> constraints,
          constraint_names     |-> <<>>,
          constraint_name_map  |-> <<>>,
          joint_constraint_map |-> <<>>,
          steps_until_rest     |-> StepsUntilRest,
          bounds               |-> <<Zero, Zero>> ])

RagdollAtRest(rag) == rag.steps_until_rest = 0

\* Ragdoll::constraint_points: (first particle's, second particle's) position
ConstraintPoints(rag, name) ==
    IF name \in DOMAIN rag.constraint_name_map
    THEN LET c == rag.constraints[rag.constraint_name_map[name]]
         IN  <<rag.joints[FirstParticle(c)].position, rag.joints[SecondParticle(c)].position>>
    ELSE <<Zero, Zero>>

\* the ragdoll after a step whose constraint phase gave r
RagdollStepped(rag, r) ==
    [rag EXCEPT !.joints = r.particles,
                !.bounds = r.bounds,
                !.steps_until_rest = IF r.active THEN rag.steps_until_rest
                                     ELSE SaturatingDec(rag.steps_until_rest)]

\* the number of times a step hands a joint to the collider
RagdollColliderCalls(rag, dt, gravity, collider) ==
    IF rag.steps_until_rest = 0 THEN 0
    ELSE SatisfyConstraints(1, Verlet(dt, AccumulateForces(gravity, rag.joints)),
                            rag.constraints, rag.bounds, collider).calls

RagdollStep(rag, dt, gravity, collider) ==
    IF rag.steps_until_rest = 0 THEN rag
    ELSE RagdollStepped(rag,
             SatisfyConstraints(1, Verlet(dt, AccumulateForces(gravity, rag.joints)),
                                rag.constraints, rag.bounds, collider))

\* an apply_force that also wakes the ragdoll
RagdollApplyForceWaking(rag, local_origin, force, width) ==
    IF VLen(force) > 0
    THEN [rag EXCEPT !.steps_until_rest = StepsUntilRest,
                     !.joints =
            [i \in DOMAIN rag.joints |->
                LET dist == VLen(VSub(rag.joints[i].position, local_origin))
                    w    == Max(width, Unit)
                IN  ParticleApplyForce(rag.joints[i],
                        IF dist <= w THEN force ELSE VMulDiv(force, w, dist))]]
    ELSE rag

\* Ragdoll::apply_force: the force falls off with the distance from the origin,
\* measured in widths (of at least 1.0)
RagdollApplyForce(rag, local_origin, force, width) ==
    IF VLen(force) > 0
    THEN [rag EXCEPT !.joints =
            [i \in DOMAIN rag.joints |->
                LET dist == VLen(VSub(rag.joints[i].position, local_origin))
                    w    == Max(width, Unit)
                IN  ParticleApplyForce(rag.joints[i],
                        IF dist <= w THEN force ELSE VMulDiv(force, w, dist))]]
    ELSE rag

RECURSIVE FindPointsBehindConstraint(_, _, _, _)
RECURSIVE FindPointsFrom(_, _, _, _, _)
\* Ragdoll::find_points_behind_constraint: the points after the call
FindPointsBehindConstraint(rag, constraint, joint, points) ==
    FindPointsFrom(rag, constraint, joint, 1, points \cup {joint})

\* its loop over the constraints connected to the joint, from position k on
FindPointsFrom(rag, constraint, joint, k, points) ==
    LET connected == rag.joint_constraint_map[joint]
    IN  IF k > Len(connected) THEN points
        ELSE LET ci      == connected[k]
                 c       == rag.constraints[ci]
                 follow  == ci # constraint /\ c.visual
                 end     == FirstParticle(c)
                 start   == SecondParticle(c)
                 p1 == IF follow /\ end \notin points
                       THEN FindPointsBehindConstraint(rag, ci, end, points)
                       ELSE points
                 p2 == IF follow /\ start \notin p1
                       THEN FindPointsBehindConstraint(rag, ci, start, p1)
                       ELSE p1
             IN  FindPointsFrom(rag, constraint, joint, k + 1, p2)

\* the test of the retain() in split_off_joint: && binds tighter than ||
IsCrossing(c, left_points, right_points) ==
    LET l == FirstParticle(c)
        r == SecondParticle(c)
    IN  \/ (~c.visual /\ l \in left_points /\ r \in right_points)
        \/ (r \in left_points /\ l \in right_points)

\* the end of split_off_joint: the joint start is cloned, and the constraint
\* at ci of the retained ones is replaced by a stick from end to the clone.
\* constraints[ci] panics when the retain() left fewer than ci constraints.
SplitReplace(rag, ci, end, start, retained) ==
    IF ci > Len(retained)
    THEN [aborted |-> TRUE, ragdoll |-> rag]
    ELSE [aborted |-> FALSE,
          ragdoll |-> RebuildConstraints(
               [rag EXCEPT
                   !.joints = Append(rag.joints, rag.joints[start]),
                   !.constraints =
                       [retained EXCEPT ![ci] =
                           StickConstraint(retained[ci].name, end, Len(rag.joints) + 1,
                                           VLen(VSub(rag.joints[start].position,
                                                     rag.joints[end].position)),
                                           TRUE)]])]

\* the retain() of split_off_joint between the two sets of points
SplitBetween(rag, ci, end, start, left_points, right_points) ==
    SplitReplace(rag, ci, end, start,
                 SelectSeq(rag.constraints,
                           LAMBDA c : ~IsCrossing(c, left_points, right_points)))

SplitAt(rag, ci, end, start) ==
    SplitBetween(rag, ci, end, start,
                 FindPointsBehindConstraint(rag, ci, end, {}),
                 FindPointsBehindConstraint(rag, ci, start, {}))

\* Ragdoll::split_off_joint(name, None).  The lookup constraint_name_map[name]
\* panics for a name that is not in the map.
SplitOffJoint(rag, name) ==
    IF name \notin DOMAIN rag.constraint_name_map
    THEN [aborted |-> TRUE, ragdoll |-> rag]
    ELSE SplitAt(rag, rag.constraint_name_map[name],
                 FirstParticle(rag.constraints[rag.constraint_name_map[name]]),
                 SecondParticle(rag.constraints[rag.constraint_name_map[name]]))

SplitBoneFromParent(rag, name) == SplitOffJoint(rag, name)


(***************************************************************************)
(* Skeleton: ragdoll, poses and inverse kinematics (skeleton.rs)           *)
(***************************************************************************)

\* Bone::to_particle
BoneToParticle(bone, transform) ==
    ParticleWithInvMass(VScale(bone.end, transform), bone.data.inv_mass)

\* Bone::to_constaint, for a bone that has a ragdoll parent
BoneToConstraint(bone) ==
    StickConstraint(bone.data.name, bone.index, bone.ragdoll_parent, bone.data.length, TRUE)

\* the constraints start_ragdoll makes of one SkeletalConstraint; the names
\* carry the bone indices as the source counts them, from 0
SkeletalConstraints(sk, constraint) ==
    LET parent == NameToIndex(sk, constraint.parent)
        child  == NameToIndex(sk, constraint.child)
    IN  IF constraint.typ = "Stick"
        THEN << StickConstraint("s-" \o ToString(parent - 1) \o "-" \o ToString(child - 1),
                                parent, child,
                                VLen(VSub(sk.bones[parent].end, sk.bones[child].end)),
                                FALSE) >>
        ELSE LET joint == NameToIndex(sk, constraint.joint)
                 swap  == sk.local_transform[1] < 0
                 left  == IF swap THEN constraint.right ELSE constraint.left
                 right == IF swap THEN constraint.left ELSE constraint.right
                 a == sk.bones[child].data.length
                 b == sk.bones[joint].data.length
                 name == "a-" \o ToString(parent - 1) \o "-" \o ToString(joint - 1)
                              \o "-" \o ToString(child - 1)
                 RestLength(angle) ==
                     ISqrt(a * a + b * b - Div(2 * a * b, 1000) * ICos(angle))
             IN  << AngularConstraint(name, parent, child, joint, RestLength(left), TRUE),
                    AngularConstraint(name, parent, child, joint, RestLength(right), FALSE) >>

RECURSIVE Flatten(_)
Flatten(seqs) == IF seqs = <<>> THEN <<>> ELSE Head(seqs) \o Flatten(Tail(seqs))

\* the ragdoll start_ragdoll hands to Ragdoll::new
RagdollOfSkeleton(sk) ==
    LET particles == [i \in DOMAIN sk.bones |-> BoneToParticle(sk.bones[i], sk.local_transform)]
        sticks == Flatten([i \in DOMAIN sk.bones |->
                              IF sk.bones[i].ragdoll_parent # NoBone
                              THEN <<BoneToConstraint(sk.bones[i])>> ELSE <<>>])
        extra  == Flatten([k \in DOMAIN sk.data.constraints |->
                              SkeletalConstraints(sk, sk.data.constraints[k])])
    IN  RagdollNew(particles, sticks \o extra)

\* the limbs start_ragdoll splits from their parents, in order
SplitLimbs == <<"L.Leg", "R.Leg", "L.Arm", "R.Arm">>

RECURSIVE SplitAll(_, _, _)
RECURSIVE SplitNext(_, _, _)
SplitAll(rag, names, k) ==
    IF k > Len(names) THEN [aborted |-> FALSE, ragdoll |-> rag]
    ELSE SplitNext(SplitBoneFromParent(rag, names[k]), names, k)

\* the splits that follow the split number k, which gave r
SplitNext(r, names, k) == IF r.aborted THEN r ELSE SplitAll(r.ragdoll, names, k + 1)

\* the skeleton start_ragdoll leaves when building the ragdoll gave r
SkeletonWithRagdoll(sk, r) ==
    [aborted |-> r.aborted,
     skeleton |-> IF r.aborted THEN sk ELSE [sk EXCEPT !.ragdoll = Some(r.ragdoll)]]

\* Skeleton::start_ragdoll
SkeletonStartRagdoll(sk) == SkeletonWithRagdoll(sk, SplitAll(RagdollOfSkeleton(sk), SplitLimbs, 1))

\* a stop_ragdoll that also forgets the pose of the bones
SkeletonStopRagdollResetting(sk) ==
    [sk EXCEPT !.ragdoll = None, !.bones = ToInternalBones(sk.data)]

\* Skeleton::stop_ragdoll
SkeletonStopRagdoll(sk) == [sk EXCEPT !.ragdoll = None]

SkeletonAtRest(sk) == IF IsSome(sk.ragdoll) THEN RagdollAtRest(Unwrap(sk.ragdoll)) ELSE FALSE

\* Skeleton::step
SkeletonStep(sk, dt, gravity, collider) ==
    IF IsSome(sk.ragdoll)
    THEN [sk EXCEPT !.ragdoll = Some(RagdollStep(Unwrap(sk.ragdoll), dt, gravity, collider))]
    ELSE SkeletonAnimate(sk, dt)

SkeletonApplyLocalForce(sk, origin, force, width) ==
    IF IsSome(sk.ragdoll)
    THEN [sk EXCEPT !.ragdoll = Some(RagdollApplyForce(Unwrap(sk.ragdoll), origin, force, width))]
    ELSE sk

SkeletonApplyWorldForce(sk, origin, force, width) ==
    SkeletonApplyLocalForce(sk, ToLocal(sk, origin), force, width)

SkeletonLocalBounds(sk) ==
    IF IsSome(sk.ragdoll) THEN Unwrap(sk.ragdoll).bounds
    ELSE <<VScale(sk.bounds[1], sk.local_transform), VScale(sk.bounds[2], sk.local_transform)>>

SkeletonWorldBounds(sk) ==
    <<VAdd(SkeletonLocalBounds(sk)[1], sk.world_position),
      VAdd(SkeletonLocalBounds(sk)[2], sk.world_position)>>

\* the point p of a bone (or of the ragdoll's constraint) seen in a space
InSpace(sk, space, p) ==
    IF IsSome(sk.ragdoll)
    THEN CASE space = "World"     -> ToWorld(sk, p)
           [] space = "Local"     -> p
           [] space = "Animation" -> VScale(p, sk.local_transform)
    ELSE CASE space = "World"     -> ToWorld(sk, VScale(p, sk.local_transform))
           [] space = "Local"     -> VScale(p, sk.local_transform)
           [] space = "Animation" -> p

\* Skeleton::bone_start
BoneStart(sk, space, name) ==
    IF IsSome(sk.ragdoll)
    THEN InSpace(sk, space, ConstraintPoints(Unwrap(sk.ragdoll), name)[2])
    ELSE IF NameToIndex(sk, name) # NoBone
    THEN InSpace(sk, space, sk.bones[NameToIndex(sk, name)].start)
    ELSE IF space = "World" THEN ToWorld(sk, Zero) ELSE Zero

\* Skeleton::bone_end
BoneEnd(sk, space, name) ==
    IF IsSome(sk.ragdoll)
    THEN InSpace(sk, space, ConstraintPoints(Unwrap(sk.ragdoll), name)[1])
    ELSE IF NameToIndex(sk, name) # NoBone
    THEN InSpace(sk, space, sk.bones[NameToIndex(sk, name)].end)
    ELSE IF space = "World" THEN ToWorld(sk, Zero) ELSE Zero

\* the end of solve_bone_ik: the first angle from the second one, its cosine
\* and its sine
IkAngles(l1, l2, x, y, cos_angle_2, sin_angle_2, a2) ==
    <<IAtan2(y * (l1 + Div(l2 * cos_angle_2, 1000)) - x * Div(l2 * sin_angle_2, 1000),
             x * (l1 + Div(l2 * cos_angle_2, 1000)) + y * Div(l2 * sin_angle_2, 1000)),
      a2>>

IkBend(l1, l2, x, y, cos_angle_2, a2) == IkAngles(l1, l2, x, y, cos_angle_2, ISin(a2), a2)

\* the branch for bones of positive length, cos_angle_2 being clamped
IkSolveCos(solve_positive, l1, l2, x, y, cos_angle_2) ==
    IkBend(l1, l2, x, y, cos_angle_2,
           IF solve_positive THEN IACos(cos_angle_2) ELSE -IACos(cos_angle_2))

\* fn solve_bone_ik: Some(<<a1, a2>>) or None; lengths in hundredths
SolveBoneIk(solve_positive, l1, l2, x, y) ==
    IF 2 * l1 * l2 > 0
    THEN IF /\ x * x + y * y - l1 * l1 - l2 * l2 >= -(2 * l1 * l2)
            /\ x * x + y * y - l1 * l1 - l2 * l2 <= 2 * l1 * l2
         THEN Some(IkSolveCos(solve_positive, l1, l2, x, y,
                       Max(-1000, Min(1000, Div(x * x + y * y - l1 * l1 - l2 * l2,
                                                 Max(1, (2 * l1 * l2) \div 1000))))))
         ELSE None
    ELSE IF x * x + y * y = (l1 + l2) * (l1 + l2)
         THEN Some(IkAngles(l1, l2, x, y, 1000, 0, 0))
         ELSE None

\* the bone at index placed from its angle, as set_ik does
IkPlace(sk, index) == [sk EXCEPT !.bones[index] = BoneSetIk(@, CalculateBone(sk, index))]

\* an apply_bone_ik that, finding no solution, lets the named bone fall back to
\* angle 0
IkApplyDroppingPose(sk, index, parent, solution) ==
    IF IsSome(solution)
    THEN [aborted |-> FALSE,
          skeleton |-> IkPlace(IkPlace(
              [sk EXCEPT !.bones[parent].angle =
                            Unwrap(solution)[1] + sk.bone_rest_angles[parent].angle
                                - sk.bones[parent].animation_angle,
                         !.bones[index].angle = Unwrap(solution)[2]],
              parent), index)]
    ELSE [aborted |-> FALSE, skeleton |-> [sk EXCEPT !.bones[index].angle = 0]]

\* the end of apply_bone_ik: a solution sets the angles of the bone and of its
\* parent, and places first the parent and then the bone
IkApply(sk, index, parent, solution) ==
    IF IsSome(solution)
    THEN [aborted |-> FALSE,
          skeleton |-> IkPlace(IkPlace(
              [sk EXCEPT !.bones[parent].angle =
                            Unwrap(solution)[1] + sk.bone_rest_angles[parent].angle
                                - sk.bones[parent].animation_angle,
                         !.bones[index].angle = Unwrap(solution)[2]],
              parent), index)]
    ELSE [aborted |-> FALSE, skeleton |-> sk]

IkSolve(sk, index, parent, target, positive) ==
    IkApply(sk, index, parent,
            SolveBoneIk(~positive, sk.bones[parent].data.length, sk.bones[index].data.length,
                        target[1] - sk.bones[parent].start[1],
                        target[2] - sk.bones[parent].start[2]))

\* Skeleton::apply_bone_ik.  bone_by_name(name).unwrap() panics for an unknown
\* name, and bones[bone.parent] panics for the bone without parent.
SkeletonApplyBoneIk(sk, name, target, positive, transformed) ==
    IF IsSome(sk.ragdoll) THEN [aborted |-> FALSE, skeleton |-> sk]
    ELSE IF NameToIndex(sk, name) = NoBone THEN [aborted |-> TRUE, skeleton |-> sk]
    ELSE IF sk.bones[NameToIndex(sk, name)].parent = NoBone
         THEN [aborted |-> TRUE, skeleton |-> sk]
    ELSE IkSolve(sk, NameToIndex(sk, name), sk.bones[NameToIndex(sk, name)].parent,
                 IF transformed THEN VScale(target, sk.local_transform) ELSE target,
                 positive)

\* Skeleton::apply_bone_angle
SkeletonApplyBoneAngle(sk, name, angle) ==
    IF NameToIndex(sk, name) # NoBone
    THEN [sk EXCEPT !.bones[NameToIndex(sk, name)] = BoneSetAngle(@, angle)]
    ELSE sk


(***************************************************************************)
(* Scarf (library/scarf.rs)                                                *)
(***************************************************************************)

RECURSIVE SchalConstraints(_, _, _, _, _)
\* the constraint loops of ParticleTemplate::schal, from cell (x, y) on;
\* particles are counted from 1
SchalConstraints(s, cols, rows, spacing, cell) ==
    IF cell >= cols * rows THEN s
    ELSE LET x == cell % cols
             y == cell \div cols
             s1 == IF x < cols - 1
                   THEN PSAddConstraint(s, StickConstraint("", cell + 1, cell + 2, spacing, FALSE))
                   ELSE s
             s2 == IF y < rows - 1
                   THEN PSAddConstraint(s1, StickConstraint("", cell + 1, cell + cols + 1,
                                                            spacing, FALSE))
                   ELSE s1
         IN  SchalConstraints(s2, cols, rows, spacing, cell + 1)

\* ParticleTemplate::schal (particle.rs)
Schal(cols, rows, spacing, position) ==
    LET s == PSNew(cols * rows, 2)
        P == [i \in DOMAIN s.particles |->
                SetInvmass(SetPosition(s.particles[i], position),
                           IF i = 1 \/ i = cols THEN 0 ELSE 90)]
    IN  SchalConstraints([s EXCEPT !.particles = P], cols, rows, spacing, 0)

ScarfNew(length, segments) ==
    [ kind      |-> "Scarf",
      bone      |-> "Root",
      particles |-> Schal(1, segments, length \div segments, Zero),
      offset    |-> Zero,
      gravity   |-> Zero,
      facing    |-> <<1, 1>> ]

ScarfAttach(sc) ==
    [sc EXCEPT !.particles.particles =
        [i \in DOMAIN sc.particles.particles |-> SetPosition(sc.particles.particles[i], Zero)]]

\* origin is bone_end(Space::Local, bone), world is bone_end(Space::World, bone)
ScarfFixate(sc, origin, world, local_transform) ==
    [sc EXCEPT !.facing = local_transform,
               !.particles.particles[1] = SetPosition(@, origin),
               !.offset = VSub(world, origin)]

\* Scarf::step; time is renderer.time()
ScarfStep(sc, dt, time, floor) ==
    [sc EXCEPT !.particles =
        PSStep(PSActivate(sc.particles), dt,
               <<-(200 * Unit) * sc.facing[1], Div(ISin(4 * time) * sc.gravity[2], 2000)>>,
               FloorCollider(floor, sc.offset, FALSE))]

(***************************************************************************)
(* Accessory (library/mod.rs): the calls StickFigure makes on an accessory *)
(***************************************************************************)

AccessorySetBone(a, bone) == [a EXCEPT !.bone = bone]

AccessoryAttach(a) == IF a.kind = "Weapon" THEN WeaponAttach(a) ELSE ScarfAttach(a)

AccessoryAttached(a) == IF a.kind = "Weapon" THEN WeaponAttached(a) ELSE TRUE

AccessoryDetach(a) == IF a.kind = "Weapon" THEN WeaponDetach(a) ELSE a

AccessoryApplyForce(a, force) == IF a.kind = "Weapon" THEN WeaponApplyForce(a, force) ELSE a

\* get_iks; no targets (None) is the empty list
AccessoryGetIks(a, sk) ==
    IF a.kind = "Weapon" THEN WeaponGetIks(a, BoneEnd(sk, "Animation", a.bone)) ELSE <<>>

AccessoryFixate(a, sk) ==
    IF a.kind = "Weapon" THEN WeaponFixate(a, BoneEnd(sk, "World", a.bone))
    ELSE ScarfFixate(a, BoneEnd(sk, "Local", a.bone), BoneEnd(sk, "World", a.bone),
                     sk.local_transform)

AccessorySetGravity(a, gravity) == [a EXCEPT !.gravity = gravity]

AccessoryStep(a, dt, time, floor) ==
    IF a.kind = "Weapon" THEN WeaponStep(a, dt, floor) ELSE ScarfStep(a, dt, time, floor)

(***************************************************************************)
(* StickFigure (library/stick_figure.rs)                                   *)
(***************************************************************************)

\* StickFigureConfig as examples/stick_example sets it; factors and speeds in
\* hundredths, lengths in model length units
Config ==
    [ offset                 |-> <<0, -(25 * Unit)>>,
      line_of_sight_length   |-> 80 * Unit,
      velocity_backwards_factor |-> 50,
      fall_limit             |-> 450,
      leanback_min           |-> -(45 * Unit),
      leanback_max           |-> 35 * Unit,
      leanback_head_factor   |-> 145,
      recoil_leanback_factor |-> 200,
      recoil_force           |-> 6 * Unit,
      recoil_damping         |-> 80,
      idle_compression       |-> 125,
      idle_speed             |-> 500,
      land_compression       |-> 10 * Unit,
      land_compression_factor |-> 99,
      land_speed             |-> 1150,
      run_compression        |-> 150,
      run_speed              |-> 1600,
      crouch_compression     |-> 300,
      crouch_speed           |-> 100 ]

\* Vec2::new(0.0, config.fall_limit * 100.0)
FallGravity == <<0, Config.fall_limit * Unit>>

\* a StickFigureState: what the host reports of the player
PlayerState(is_alive, position, velocity, direction, is_grounded, is_crouching, is_firing) ==
    [ is_alive |-> is_alive, position |-> position, velocity |-> velocity,
      force |-> <<-(16 * Unit), -(31 * Unit)>>, direction |-> direction,
      is_grounded |-> is_grounded, is_crouching |-> is_crouching, is_firing |-> is_firing ]

\* StickFigure::default with the accessories the example host adds
StickFigureNew(state) ==
    [ state             |-> state,
      skeleton          |-> SkeletonSetAnimator(SkeletonNew(DefaultFigureSkeleton),
                                                FigureAnimator),
      crouch_timer      |-> 0,
      idle_timer        |-> 0,
      run_timer         |-> 0,
      compression_timer |-> 0,
      recoil            |-> 0,
      compression       |-> 0,
      was_firing        |-> FALSE,
      was_grounded      |-> FALSE,
      ragdoll_timer     |-> 0,
      accessories       |-> << >> ]

\* StickFigure::add_accessory
AddAccessory(f, name, bone, accessory) ==
    [f EXCEPT !.accessories =
        [n \in DOMAIN f.accessories \cup {name} |->
            IF n = name THEN AccessorySetBone(accessory, bone) ELSE f.accessories[n]]]

\* StickFigure::attach
FigureAttach(f, name) ==
    IF name \in DOMAIN f.accessories
    THEN [f EXCEPT !.accessories[name] = AccessoryAttach(@)]
    ELSE f

\* StickFigure::detach
FigureDetach(f, name) ==
    IF name \in DOMAIN f.accessories
    THEN [f EXCEPT !.accessories[name] = AccessoryDetach(@)]
    ELSE f

\* the force set_state throws the figure with
DeathForce(state) ==
    VAdd(VScale(state.force, Facing(state.direction + D90)), state.velocity)

\* the accessories as the death edge of set_state leaves them: each is
\* detached, and thrown with half the force if it was attached
DropAccessories(accessories, force) ==
    [n \in DOMAIN accessories |->
        IF AccessoryAttached(accessories[n])
        THEN AccessoryApplyForce(AccessoryDetach(accessories[n]), VMulDiv(force, 1, 2))
        ELSE AccessoryDetach(accessories[n])]

\* the death edge once start_ragdoll has given started
FigureThrown(f, force, started) ==
    [aborted |-> started.aborted,
     figure  |-> IF started.aborted THEN f
                 ELSE [f EXCEPT !.accessories = DropAccessories(f.accessories, force),
                                !.skeleton =
                                    SkeletonApplyLocalForce(started.skeleton,
                                                            <<0, -(10 * Unit)>>,
                                                            force, 2 * Unit),
                                !.ragdoll_timer = 0]]

\* a set_state that starts the ragdoll whenever the state is dead
FigureEdgeOnLevel(f) ==
    IF ~f.state.is_alive
    THEN FigureThrown(f, DeathForce(f.state), SkeletonStartRagdoll(f.skeleton))
    ELSE IF f.state.is_alive /\ SkeletonHasRagdoll(f.skeleton)
    THEN [aborted |-> FALSE,
          figure  |-> [f EXCEPT
                        !.accessories = [n \in DOMAIN f.accessories |->
                                            AccessoryAttach(f.accessories[n])],
                        !.skeleton = SkeletonStopRagdoll(f.skeleton)]]
    ELSE [aborted |-> FALSE, figure |-> f]

\* the edges of set_state, on the figure that holds the new state
FigureEdge(f) ==
    IF ~f.state.is_alive /\ ~SkeletonHasRagdoll(f.skeleton)
    THEN FigureThrown(f, DeathForce(f.state), SkeletonStartRagdoll(f.skeleton))
    ELSE IF f.state.is_alive /\ SkeletonHasRagdoll(f.skeleton)
    THEN [aborted |-> FALSE,
          figure  |-> [f EXCEPT
                        !.accessories = [n \in DOMAIN f.accessories |->
                                            AccessoryAttach(f.accessories[n])],
                        !.skeleton = SkeletonStopRagdoll(f.skeleton)]]
    ELSE [aborted |-> FALSE, figure |-> f]

\* StickFigure::set_state; start_ragdoll may abort
FigureSetState(f, state) == FigureEdge([f EXCEPT !.state = state])

\* an angle of timer (milliseconds) times speed (hundredths per second)
Phase(timer, speed) == Div(timer * speed, One)

\* the rest of update for a figure that is alive
FigureUpdateAlive(f, dt, landed) ==
    [f EXCEPT
        !.compression_timer =
            (IF landed THEN 0 ELSE f.compression_timer)
                + (IF f.state.is_grounded THEN dt ELSE 0),
        !.compression =
            Div((IF landed THEN Config.land_compression ELSE f.compression)
                    * Config.land_compression_factor, One),
        !.recoil = IF ~f.was_firing /\ f.state.is_firing THEN Config.recoil_force
                   ELSE Div(f.recoil * Config.recoil_damping, One),
        !.idle_timer = IF /\ f.state.velocity[1] = 0
                          /\ f.state.is_grounded
                          /\ ~f.state.is_crouching
                       THEN f.idle_timer + dt ELSE 0,
        !.run_timer = IF /\ Abs(f.state.velocity[1]) > Unit
                         /\ f.state.is_grounded
                         /\ ~f.state.is_crouching
                      THEN f.run_timer + dt ELSE 0,
        !.crouch_timer = IF f.state.is_grounded /\ f.state.is_crouching
                         THEN f.crouch_timer + dt
                         ELSE Div(f.crouch_timer * 9, 10),
        !.was_firing = f.state.is_firing,
        !.was_grounded = f.state.is_grounded]

\* StickFigure::update
FigureUpdate(f, dt) ==
    IF ~f.state.is_alive
    THEN IF SkeletonHasRagdoll(f.skeleton)
         THEN [f EXCEPT !.ragdoll_timer = f.ragdoll_timer + dt] ELSE f
    ELSE FigureUpdateAlive(IF SkeletonHasRagdoll(f.skeleton)
                           THEN [f EXCEPT !.ragdoll_timer = f.ragdoll_timer + dt] ELSE f,
                           dt, ~f.was_grounded /\ f.state.is_grounded)

\* the height of the aim over the shoulder
HorizonFrom(shoulder, direction) ==
    VAdd(shoulder, AngleOffset(direction, Config.line_of_sight_length))[2] - shoulder[2]

\* StickFigure::compute_view_horizon_distance
ComputeViewHorizonDistance(f) ==
    HorizonFrom(BoneEnd(f.skeleton, "Local", "Back"), f.state.direction)

\* the leanback angle of draw, in milliradians: a length clamped and taken
\* times 0.009
Leanback(f) ==
    Div(Max(Config.leanback_min,
            Min(Config.leanback_max,
                Div(ComputeViewHorizonDistance(f), 2)
                    - Div(f.recoil * Config.recoil_leanback_factor, One))) * 9, One)

\* the animation phase of draw: set_speed and transition_to on the animator.
\* The running branch sets the speed of "RuN", a state that does not exist.
FigureAnimation(f, an) ==
    IF ~f.state.is_grounded
    THEN AnimatorTransitionTo(
             AnimatorSetSpeed(an, "Jump", Min(Max(Abs(f.state.velocity[1]), One), 150)),
             "Jump")
    ELSE IF Abs(f.state.velocity[1]) > 50
    THEN IF (IF f.state.velocity[1] < 0 THEN -1 ELSE 1)
                = Facing(f.state.direction + D90)[1]
         THEN AnimatorTransitionTo(
                  AnimatorSetSpeed(an, "RuN", Abs(Div(f.state.velocity[1] * 10, 35))),
                  "Run")
         ELSE AnimatorTransitionTo(
                  AnimatorSetSpeed(an, "Back",
                      Abs(Div(Config.velocity_backwards_factor * f.state.velocity[1], 175))),
                  "Back")
    ELSE AnimatorTransitionTo(AnimatorSetSpeed(an, "Idle", One), "Idle")

\* (sin(phase) * compression + compression * k) * min(phase, 1.0)
Bob(phase, compression, k) ==
    Div((Div(ISin(phase) * compression, 1000) + compression * k) * Min(phase, 1000), 1000)

BobOffset(timer, speed, compression, k) == Bob(Phase(timer, speed), compression, k)

\* the world offset draw asks the skeleton to take
FigureWorldOffset(f) ==
    VAdd(VAdd(VAdd(f.state.position, Config.offset),
              <<0, BobOffset(f.idle_timer, Config.idle_speed, Config.idle_compression, 2)
                     + BobOffset(f.crouch_timer, Config.crouch_speed,
                                 Config.crouch_compression, 4)
                     + BobOffset(f.run_timer, Config.run_speed, Config.run_compression, 2)
                     + Div(f.compression
                             * Max(0, ISin(Min(Phase(f.compression_timer, Config.land_speed),
                                               3410))),
                           1000)>>),
         <<Div(ICos(f.state.direction) * (-f.recoil), 2000),
           Max(0, Div(ISin(f.state.direction) * (-f.recoil), 2000))>>)

RECURSIVE ApplyIks(_, _, _)
\* apply_bone_ik for each target of a list, from target k on
ApplyIks(r, iks, k) ==
    IF r.aborted \/ k > Len(iks) THEN r
    ELSE ApplyIks(SkeletonApplyBoneIk(r.skeleton, iks[k].bone, iks[k].target,
                                      iks[k].positive, FALSE),
                  iks, k + 1)

RECURSIVE AccessoryIks(_, _, _)
\* the accessory IK loop of draw over the accessories named in names
AccessoryIks(r, accessories, names) ==
    IF r.aborted \/ names = <<>> THEN r
    ELSE AccessoryIks(ApplyIks(r, AccessoryGetIks(accessories[Head(names)], r.skeleton), 1),
                      accessories, Tail(names))

\* a foot at the world position p is put on the floor it would sink into
FootIk(r, foot, p, floor) ==
    IF p[2] <= floor THEN r
    ELSE SkeletonApplyBoneIk(r.skeleton, foot,
                             VSub(<<p[1], floor>>, r.skeleton.world_position), FALSE, TRUE)

\* one leg IK of draw
LegIk(r, foot, floor) ==
    IF r.aborted THEN r
    ELSE FootIk(r, foot, VAdd(BoneEnd(r.skeleton, "Local", foot), r.skeleton.world_position),
                floor)

\* the names of a set of accessories in the order the map yields them
RECURSIVE NamesOf(_)
NamesOf(S) ==
    IF S = {} THEN <<>>
    ELSE LET n == CHOOSE m \in S : TRUE IN <<n>> \o NamesOf(S \ {n})

\* draw, part 1: the pose.  The skeleton takes the facing, the back and the
\* head lean, the animator is set, and the skeleton takes its world offset.
FigureFace(f) ==
    [f EXCEPT !.skeleton = SkeletonSetLocalTransform(@, Facing(f.state.direction + D90))]

FigureLean(f, leanback) ==
    [f EXCEPT !.skeleton =
        SkeletonApplyBoneAngle(
            SkeletonApplyBoneAngle(@, "Back",
                leanback + Div(f.state.velocity[1] * Facing(f.state.direction + D90)[1], 2)),
            "Head", Div(leanback * Config.leanback_head_factor, One))]

FigureLeaned(f) == FigureLean(f, Leanback(f))

FigureAnimated(f) == [f EXCEPT !.skeleton.animator = FigureAnimation(f, @)]

FigureOffset(f) == [f EXCEPT !.skeleton = SkeletonSetWorldOffset(@, FigureWorldOffset(f))]

FigurePosed(f) == FigureOffset(FigureAnimated(FigureLeaned(FigureFace(f))))

\* draw, part 2: the skeleton steps against the host's floor
FigureStepped(f, dt, floor) ==
    [f EXCEPT !.skeleton =
        SkeletonStep(@, dt, FallGravity,
                     FloorCollider(floor, f.skeleton.world_position,
                                   f.ragdoll_timer > TicksPerSecond))]

\* draw, part 3: the accessories' IK targets, then the legs of a grounded figure
FigureLegs(f, r, floor) ==
    IF f.state.is_grounded
    THEN LegIk(LegIk(r, "L.Foot", floor), "R.Foot", floor)
    ELSE r

\* names is the order in which self.accessories.values() yields the accessories
FigureIksIn(f, floor, names) ==
    FigureLegs(f, AccessoryIks([aborted |-> FALSE, skeleton |-> f.skeleton], f.accessories,
                               names),
               floor)

FigureIks(f, floor) == FigureIksIn(f, floor, NamesOf(DOMAIN f.accessories))

\* draw, part 4: the weapon takes the aim and the recoil, and every accessory
\* is fixated, given the gravity and stepped
AccessoryAimed(f, n) ==
    IF n = "Weapon" /\ f.accessories[n].kind = "Weapon"
    THEN WeaponSetRecoil(WeaponSetAimDirection(f.accessories[n], f.state.direction), f.recoil)
    ELSE f.accessories[n]

FigureAccessories(f, sk, dt, time, floor) ==
    [f EXCEPT !.skeleton = sk,
              !.accessories =
                  [n \in DOMAIN f.accessories |->
                      AccessoryStep(AccessorySetGravity(AccessoryFixate(AccessoryAimed(f, n),
                                                                        sk),
                                                        FallGravity),
                                    dt, time, floor)]]

\* the end of draw, r being what the IKs gave
FigureDrawn(f0, f, r, dt, time, floor) ==
    [aborted |-> r.aborted,
     figure  |-> IF r.aborted THEN f0 ELSE FigureAccessories(f, r.skeleton, dt, time, floor)]

FigureDrawFrom(f0, f, dt, time, floor) ==
    FigureDrawn(f0, f, FigureIks(f, floor), dt, time, floor)

\* StickFigure::draw; dt is renderer.dt(), time renderer.time(), floor the floor
\* of the host's collider
FigureDraw(f0, dt, time, floor) ==
    FigureDrawFrom(f0, FigureStepped(FigurePosed(FigureUpdate(f0, dt)), dt, floor),
                   dt, time, floor)

(***************************************************************************)
(* The objects a specification does not drive stay as they are built.      *)
(***************************************************************************)

PSUnused ==
    /\ ps = PSNew(0, 1)
    /\ ps_todo = <<>>
    /\ ps_calls = 0
    /\ ps_steps = 0
    /\ ps_quiet = 0

WeaponUnused == weapon = WeaponNew(RifleData) /\ w_steps = 0

RagdollUnused == ragdoll = None /\ rag_split = {} /\ rag_calls = 0

FigureUnused == figure = None /\ clock = 0 /\ calls = 0 /\ detached_at_death = {}

SkeletonUnused == skel = None /\ skel_calls = 0

AnimatorUnused == anim = None /\ anim_bones = <<>> /\ anim_calls = 0

RigidUnused == rigid = None /\ rigid_calls = 0

HasherUnused == hasher = <<>>

(***************************************************************************)
(* SpecPS: a particle system driven through its public API.  The system is *)
(* built as ParticleTemplate::schal and RigidBody::new build theirs: new() *)
(* followed by set_position/set_invmass on each particle; constraints are  *)
(* then added, and the system activated and stepped, in any order.         *)
(***************************************************************************)

\* bound: the number of step() calls that move a particle, per behaviour
MaxSteps == 3

\* the particles of the system under test
PSParticles == 3

\* the layout the three particles are placed in (units)
PSLayouts ==
    { << <<0, 0>>, <<3, 0>>, <<3, 2>> >> }

\* the inverse masses the three particles are given (hundredths)
PSMasses == { <<0, One, One>>, <<One, One \div 2, 0>> }

PSConfigured(layout, masses, iterations) ==
    LET s == PSNew(PSParticles, iterations)
    IN  [s EXCEPT !.particles = [i \in DOMAIN s.particles |->
            SetInvmass(SetPosition(s.particles[i],
                                   <<layout[i][1] * Unit, layout[i][2] * Unit>>),
                       masses[i])]]

\* the constraints add_constraint is called with, in the order of the calls
PSConstraintLists ==
    { << StickConstraint("s12", 1, 2, 2 * Unit, TRUE),
         AngularConstraint("a132", 1, 3, 2, 4 * Unit, TRUE) >>,
      << StickConstraint("s23", 2, 3, 3 * Unit, FALSE),
         AngularConstraint("a132", 1, 3, 2, 4 * Unit, FALSE),
         StickConstraint("s12", 1, 2, 2 * Unit, TRUE) >> }

\* the time step of a frame at 20 frames per second
FrameTime == TicksPerSecond \div 20

\* gravity, in length units per second squared: none, or the 450 of the scarf
PSGravities == { Zero, <<0, 450 * Unit>> }

\* the colliders step() is called with: none, or a floor three units down
PSColliders == { NoCollider, FloorCollider(3 * Unit, Zero, FALSE) }

InitPS ==
    /\ ps \in { PSConfigured(l, m, it) : l \in PSLayouts, m \in PSMasses, it \in 1..2 }
    /\ ps_todo \in PSConstraintLists
    /\ ps_calls = 0
    /\ ps_steps = 0
    /\ ps_quiet = 0
    /\ op = [name |-> "new"]
    /\ WeaponUnused
    /\ RagdollUnused
    /\ FigureUnused
    /\ SkeletonUnused
    /\ AnimatorUnused
    /\ RigidUnused
    /\ HasherUnused
    /\ aborted = FALSE

PSActivateCall ==
    /\ UNCHANGED nonPsVars
    /\ ps' = PSActivate(ps)
    /\ ps_calls' = 0
    /\ ps_quiet' = 0
    /\ op' = [name |-> "activate"]
    /\ UNCHANGED <<ps_steps, ps_todo>>

PSAddConstraintCall ==
    /\ UNCHANGED nonPsVars
    /\ ps_todo # <<>>
    /\ ps' = PSAddConstraint(ps, Head(ps_todo))
    /\ ps_todo' = Tail(ps_todo)
    /\ op' = [name |-> "add_constraint", constraint |-> Head(ps_todo)]
    /\ ps_calls' = 0
    /\ ps_quiet' = 0
    /\ UNCHANGED ps_steps

PSStepCall ==
    /\ UNCHANGED nonPsVars
    /\ ps_steps < MaxSteps
    /\ \E g \in PSGravities, col \in PSColliders :
          LET r == PSStepFull(ps, FrameTime, g, col)
          IN  /\ ps' = r.system
              /\ ps_calls' = r.calls
              /\ ps_steps' = IF r.system.particles = ps.particles
                             THEN ps_steps ELSE ps_steps + 1
              /\ ps_quiet' = IF PSActive(ps) /\ ~r.active THEN ps_quiet + 1 ELSE ps_quiet
              /\ op' = [name |-> "step", gravity |-> g, collider |-> col,
                        was_active |-> PSActive(ps), moved |-> r.active]
    /\ UNCHANGED ps_todo

NextPS == PSActivateCall \/ PSAddConstraintCall \/ PSStepCall

SpecPS == InitPS /\ [][NextPS]_vars


(***************************************************************************)
(* Properties of the particle system (checked under SpecPS)                *)
(***************************************************************************)

\* C5: the activity counter stays within 0..10; activate() sets it to exactly 10;
\* every step that runs and finds no particle moved above the rest threshold takes
\* one off it, so that ten such steps after an activation bring it to 0, and it
\* never goes below 0.
C5_ActivityRange ==
    /\ ps.activity \in 0..ActivityMax
    /\ ps_quiet \in 0..ActivityMax
    /\ ps.activity = ActivityMax - ps_quiet
    /\ op.name \in {"new", "activate", "add_constraint"} => ps.activity = ActivityMax

\* C5 witness: ten quiet steps after an activation have brought the counter to 0
C5_Witness ==
    /\ op.name = "step"
    /\ ps_quiet = ActivityMax
    /\ ps.activity = 0

PinnedParticles(P) == {i \in DOMAIN P : P[i].inv_mass = 0}

\* C6: a step leaves the number of particles unchanged, and a particle whose
\* inverse mass is 0 keeps its position through the Verlet update (whatever the
\* gravity) and through the solve of every constraint of the system; a whole step
\* made without a collider leaves it where it was.
C6_PinnedFixed ==
    [][ /\ Len(ps'.particles) = Len(ps.particles)
        /\ \A i \in PinnedParticles(ps.particles) :
              /\ \A g \in PSGravities :
                    Verlet(1, AccumulateForces(g, ps.particles))[i].position
                        = ps.particles[i].position
              /\ \A k \in DOMAIN ps.constraints :
                    Solve(ps.constraints[k], ps.particles)[i].position
                        = ps.particles[i].position
              /\ (op'.name = "step" /\ op'.collider = NoCollider)
                    => ps'.particles[i].position = ps.particles[i].position
      ]_vars

\* C6 witness: a step under gravity has moved a particle that a constraint ties
\* to a pinned one
C6_Witness ==
    /\ op.name = "step"
    /\ op.gravity # Zero
    /\ \E k \in DOMAIN ps.constraints :
          LET c == ps.constraints[k]
          IN  /\ c.typ = "Stick"
              /\ \E i \in {c.a, c.b}, j \in {c.a, c.b} :
                    /\ ps.particles[i].inv_mass = 0
                    /\ ps.particles[j].position # ps.particles[j].prev_position

\* C7: a step of a system whose activity is 0 changes no particle, not the bounds
\* and not the activity, and calls the collider not once; the activity leaves 0
\* only through activate() or add_constraint().
C7_InactiveStepIsNoOp ==
    [][ /\ (op'.name = "step" /\ ps.activity = 0) => (ps' = ps /\ ps_calls' = 0)
        /\ (ps.activity = 0 /\ ps'.activity > 0)
              => op'.name \in {"activate", "add_constraint"}
      ]_vars

\* C7 witness: a step was made on a sleeping system whose particles were given
\* a gravity that would have moved them
C7_Witness ==
    /\ op.name = "step"
    /\ ~op.was_active
    /\ op.gravity # Zero
    /\ op.collider # NoCollider


(***************************************************************************)
(* SpecWeapon: a Weapon accessory driven through its interface, the way    *)
(* StickFigure::draw and StickFigure::set_state drive it                   *)
(***************************************************************************)

\* the number of forces, dynamic steps and re-attachments a run of the weapon takes
MaxWeaponSteps == 3

\* the floor of the host's collider (y grows downward)
WeaponFloor == 12 * Unit

\* world positions of the end of the bone the weapon is held at
WeaponShoulders == { <<5 * Unit, 4 * Unit>> }

WeaponDirections == { 0, Pi }

\* config.recoil_force (examples/stick_example)
WeaponRecoils == { 6 * Unit }

\* frame times: renderer.dt() of a regular and of a slow frame
WeaponFrameTimes == { FrameTime, 7 * FrameTime }

\* config.fall_limit * 100 downward (examples/stick_example)
ConfigGravity == <<0, 450 * Unit>>

\* (state.force().scale(facing) + state.velocity()) * 0.5, facing right at rest
WeaponForces == { <<-8 * Unit, -(31 * Unit) \div 2>> }

InitWeapon ==
    /\ weapon = WeaponSetBone(WeaponNew(RifleData), "R.Arm")
    /\ w_steps = 0
    /\ op = [name |-> "new"]
    /\ PSUnused
    /\ RagdollUnused
    /\ FigureUnused
    /\ SkeletonUnused
    /\ AnimatorUnused
    /\ RigidUnused
    /\ HasherUnused
    /\ aborted = FALSE

WeaponSetAimDirectionCall ==
    /\ \E d \in WeaponDirections :
          /\ weapon' = WeaponSetAimDirection(weapon, d)
          /\ op' = [name |-> "set_aim_direction", direction |-> d]
    /\ UNCHANGED <<w_steps, nonWVars>>

WeaponSetRecoilCall ==
    /\ \E r \in WeaponRecoils :
          /\ weapon' = WeaponSetRecoil(weapon, r)
          /\ op' = [name |-> "set_recoil", recoil |-> r]
    /\ UNCHANGED <<w_steps, nonWVars>>

WeaponFixateCall ==
    /\ \E shoulder \in WeaponShoulders :
          /\ weapon' = WeaponFixate(weapon, shoulder)
          /\ op' = [name |-> "fixate", shoulder |-> shoulder]
    /\ UNCHANGED <<w_steps, nonWVars>>

WeaponSetGravityCall ==
    /\ weapon' = WeaponSetGravity(weapon, ConfigGravity)
    /\ op' = [name |-> "set_gravity"]
    /\ UNCHANGED <<w_steps, nonWVars>>

WeaponDetachCall ==
    /\ weapon' = WeaponDetach(weapon)
    /\ op' = [name |-> "detach"]
    /\ UNCHANGED <<w_steps, nonWVars>>

WeaponAttachCall ==
    /\ w_steps < MaxWeaponSteps
    /\ weapon' = WeaponAttach(weapon)
    /\ op' = [name |-> "attach"]
    /\ w_steps' = IF weapon.has_ragdoll THEN w_steps + 1 ELSE w_steps
    /\ UNCHANGED nonWVars

WeaponApplyForceCall ==
    /\ w_steps < MaxWeaponSteps
    /\ \E f \in WeaponForces :
          /\ weapon' = WeaponApplyForce(weapon, f)
          /\ op' = [name |-> "apply_force", force |-> f]
    /\ w_steps' = w_steps + 1
    /\ UNCHANGED nonWVars

WeaponStepCall ==
    /\ w_steps < MaxWeaponSteps
    /\ \E dt \in WeaponFrameTimes :
          /\ weapon' = WeaponStep(weapon, dt, WeaponFloor)
          /\ op' = [name |-> "weapon_step", dt |-> dt, dynamic |-> weapon.has_ragdoll]
    /\ w_steps' = IF weapon.has_ragdoll THEN w_steps + 1 ELSE w_steps
    /\ UNCHANGED nonWVars

NextWeapon ==
    \/ WeaponSetAimDirectionCall
    \/ WeaponSetRecoilCall
    \/ WeaponFixateCall
    \/ WeaponSetGravityCall
    \/ WeaponDetachCall
    \/ WeaponAttachCall
    \/ WeaponApplyForceCall
    \/ WeaponStepCall

SpecWeapon == InitWeapon /\ [][NextWeapon]_vars

(***************************************************************************)
(* Properties of the dropped weapon (checked under SpecWeapon)             *)
(***************************************************************************)

WeaponParticles == weapon.rigid.particles.particles

\* C8: after a step of a dropped weapon with a collider that clamps to the floor,
\* every particle of its rigid body has y <= floor.
C8_AllOnFloorAfterStep ==
    (op.name = "weapon_step" /\ op.dynamic)
        => \A i \in DOMAIN WeaponParticles : WeaponParticles[i].position[2] <= WeaponFloor

(***************************************************************************)
(* SpecRagdoll: a ragdoll driven through its public API.  The ragdoll is   *)
(* the one Skeleton::start_ragdoll hands to Ragdoll::new for the default   *)
(* figure after one animated frame, before any bone is split off.          *)
(***************************************************************************)

\* bound on the number of calls made on the ragdoll
MaxRagdollCalls == 4

\* the default skeleton with the figure's animator after one frame
PosedSkeleton ==
    SkeletonStep(SkeletonSetAnimator(SkeletonNew(DefaultFigureSkeleton), FigureAnimator),
                 FrameTime, Zero, NoCollider)

\* a limb whose ragdoll links close a ring: the root's ragdoll parent is the
\* lower bone, so the visible sticks Root-Lower, Upper-Root and Lower-Upper form
\* a cycle; a second root, Spare, is tied to the upper bone by a stick
\* constraint that is not visible
LoopSkeleton ==
    [ bones |-> <<
        SkeletalBone("Root",  "Root",  4 * Unit,  -D90, One, None, None),
        SkeletalBone("Upper", "Root",  10 * Unit, D22,  One, None, None),
        SkeletalBone("Lower", "Upper", 8 * Unit,  D45,  One, None, None),
        SkeletalBone("Spare", "Spare", 6 * Unit,  0,    One, None, None) >>,
      ragdoll_parents |-> << [name |-> "Root", parent |-> "Lower"] >>,
      constraints |-> << [typ |-> "Stick", parent |-> "Spare", child |-> "Upper"] >> ]

\* the ring after one frame
PosedLoop == SkeletonStep(SkeletonNew(LoopSkeleton), FrameTime, Zero, NoCollider)

RECURSIVE RagdollStepped0(_, _)
\* the ragdoll after n steps without gravity and without collider
RagdollStepped0(rag, n) ==
    IF n = 0 THEN rag
    ELSE RagdollStepped0(RagdollStep(rag, FrameTime, Zero, NoCollider), n - 1)

\* the default figure's ragdoll one quiet step from its rest
CalmRagdoll == RagdollStepped0(RagdollOfSkeleton(PosedSkeleton), StepsUntilRest - 1)

\* the ragdolls under test
Ragdolls == { RagdollOfSkeleton(PosedSkeleton), RagdollOfSkeleton(PosedLoop), CalmRagdoll }

\* the gravity step is called with: the figure's, or none
RagdollGravities == { ConfigGravity, Zero }

\* the names split_bone_from_parent is called with; "Tail" names no constraint
RagdollBones == { "L.Leg", "R.Arm", "Root", "Upper", "Tail" }

\* the floor of the collider, in the ragdoll's coordinates
RagdollFloor == 30 * Unit

\* the force of apply_force: origin, force and width
RagdollForces == { <<<<0, -(10 * Unit)>>, <<-(16 * Unit), -(31 * Unit)>>, 2 * Unit>> }

InitRagdoll ==
    /\ ragdoll \in Ragdolls
    /\ rag_split = {}
    /\ rag_calls = 0
    /\ aborted = FALSE
    /\ op = [name |-> "new"]
    /\ PSUnused
    /\ WeaponUnused
    /\ FigureUnused
    /\ SkeletonUnused
    /\ AnimatorUnused
    /\ RigidUnused
    /\ HasherUnused

SplitBoneFromParentCall ==
    /\ ~aborted
    /\ rag_calls < MaxRagdollCalls
    /\ \E name \in RagdollBones :
          LET r == SplitBoneFromParent(ragdoll, name)
          IN  /\ ragdoll' = r.ragdoll
              /\ aborted' = r.aborted
              /\ rag_split' = IF r.aborted THEN rag_split ELSE rag_split \cup {name}
              /\ op' = [name |-> "split_bone_from_parent", bone |-> name]
    /\ rag_calls' = rag_calls + 1
    /\ UNCHANGED nonRagVars

RagdollStepCall ==
    /\ ~aborted
    /\ rag_calls < MaxRagdollCalls
    /\ \E g \in RagdollGravities :
          /\ ragdoll' = RagdollStep(ragdoll, FrameTime, g,
                                    FloorCollider(RagdollFloor, Zero, FALSE))
          /\ op' = [name |-> "step", gravity |-> g,
                    calls |-> RagdollColliderCalls(ragdoll, FrameTime, g,
                                  FloorCollider(RagdollFloor, Zero, FALSE))]
    /\ rag_calls' = rag_calls + 1
    /\ UNCHANGED <<rag_split, aborted, nonRagVars>>

RagdollApplyForceCall ==
    /\ ~aborted
    /\ rag_calls < MaxRagdollCalls
    /\ \E f \in RagdollForces : ragdoll' = RagdollApplyForce(ragdoll, f[1], f[2], f[3])
    /\ op' = [name |-> "apply_force"]
    /\ rag_calls' = rag_calls + 1
    /\ UNCHANGED <<rag_split, aborted, nonRagVars>>

NextRagdoll ==
    \/ SplitBoneFromParentCall
    \/ RagdollStepCall
    \/ RagdollApplyForceCall

SpecRagdoll == InitRagdoll /\ [][NextRagdoll]_vars

\* C10: split_bone_from_parent with a name that matches no constraint, or with
\* a bone an earlier call has already split off, does not abort and leaves the
\* joint count, the constraints and the name and adjacency maps as they were.
C10_SplitIsNoOp ==
    [][ ( /\ op'.name = "split_bone_from_parent"
          /\ \/ op'.bone \notin DOMAIN ragdoll.constraint_name_map
             \/ op'.bone \in rag_split )
        => ( /\ ~aborted'
             /\ Len(ragdoll'.joints) = Len(ragdoll.joints)
             /\ ragdoll'.constraints = ragdoll.constraints
             /\ ragdoll'.constraint_names = ragdoll.constraint_names
             /\ ragdoll'.constraint_name_map = ragdoll.constraint_name_map
             /\ ragdoll'.joint_constraint_map = ragdoll.joint_constraint_map ) ]_vars

(***************************************************************************)
(* Spec: the stick figure of examples/stick_example, with its scarf and    *)
(* its weapon, driven by a host: set_state and draw every frame, attach    *)
(* and detach, and the setters the host reaches through skeleton_mut().    *)
(***************************************************************************)

\* bound on the number of calls made on the figure
MaxCalls == 3

\* the floor of the host's collider, in world coordinates
FigureFloor == 120 * Unit

\* standing on the floor, aiming a little upwards
Standing == PlayerState(TRUE, <<100 * Unit, 120 * Unit>>, Zero, -300, TRUE, FALSE, FALSE)

\* running to the left and firing
Running ==
    PlayerState(TRUE, <<104 * Unit, 120 * Unit>>, <<-(2 * Unit), 0>>, Pi, TRUE, FALSE, TRUE)

\* the states the host reports: each of the two alive and dead
PlayerStates ==
    { [s EXCEPT !.is_alive = alive] : s \in { Standing, Running }, alive \in BOOLEAN }

\* the accessory names attach and detach are called with; there is no "Hat"
AccessoryNames == { "Weapon", "Hat" }

\* the bone names the setters are called with; there is no "Tail"
AngleBones == { "Back", "Tail" }

IkBones == { "L.Hand", "Tail" }

\* the animator states transition_to is called with; there is no "Fly"
StateNames == { "Run", "Fly" }

\* the angle of apply_bone_angle
BoneAngles == { D22 }

\* the target of apply_bone_ik
IkTargets == { <<10 * Unit, -(10 * Unit)>> }

\* the argument of set_local_transform
Transforms == { <<-1, 1>> }

\* the argument of set_world_offset
WorldOffsets == { <<50 * Unit, 50 * Unit>> }

Init ==
    /\ figure = AddAccessory(AddAccessory(StickFigureNew(Standing),
                                          "Scarf", "Neck", ScarfNew(24 * Unit, 6)),
                             "Weapon", "Back", WeaponNew(RifleData))
    /\ clock = 0
    /\ calls = 0
    /\ detached_at_death = {}
    /\ aborted = FALSE
    /\ op = [name |-> "new"]
    /\ PSUnused
    /\ WeaponUnused
    /\ RagdollUnused
    /\ SkeletonUnused
    /\ AnimatorUnused
    /\ RigidUnused
    /\ HasherUnused

\* what every call on the figure starts with
Called ==
    /\ ~aborted
    /\ calls < MaxCalls
    /\ calls' = calls + 1
    /\ UNCHANGED nonFigVars

SetStateCall ==
    /\ Called
    /\ \E s \in PlayerStates :
          LET r == FigureSetState(figure, s)
              starts == ~s.is_alive /\ ~SkeletonHasRagdoll(figure.skeleton)
          IN  /\ figure' = r.figure
              /\ aborted' = r.aborted
              /\ detached_at_death' =
                    IF starts
                    THEN { n \in DOMAIN figure.accessories :
                              ~AccessoryAttached(figure.accessories[n]) }
                    ELSE detached_at_death
              /\ op' = [name |-> "set_state", is_alive |-> s.is_alive,
                        had_ragdoll |-> SkeletonHasRagdoll(figure.skeleton)]
    /\ UNCHANGED clock

DrawCall ==
    /\ Called
    /\ LET r == FigureDraw(figure, FrameTime, clock + FrameTime, FigureFloor)
       IN  /\ figure' = r.figure
           /\ aborted' = r.aborted
    /\ clock' = clock + FrameTime
    /\ op' = [name |-> "draw", had_ragdoll |-> SkeletonHasRagdoll(figure.skeleton)]
    /\ UNCHANGED detached_at_death

AttachCall ==
    /\ Called
    /\ \E name \in AccessoryNames :
          /\ figure' = FigureAttach(figure, name)
          /\ op' = [name |-> "attach", unknown |-> name \notin DOMAIN figure.accessories]
    /\ UNCHANGED <<clock, detached_at_death, aborted>>

DetachCall ==
    /\ Called
    /\ \E name \in AccessoryNames :
          /\ figure' = FigureDetach(figure, name)
          /\ op' = [name |-> "detach", unknown |-> name \notin DOMAIN figure.accessories]
    /\ UNCHANGED <<clock, detached_at_death, aborted>>

ApplyBoneAngleCall ==
    /\ Called
    /\ \E name \in AngleBones, angle \in BoneAngles :
          /\ figure' = [figure EXCEPT !.skeleton = SkeletonApplyBoneAngle(@, name, angle)]
          /\ op' = [name |-> "apply_bone_angle",
                    unknown |-> NameToIndex(figure.skeleton, name) = NoBone]
    /\ UNCHANGED <<clock, detached_at_death, aborted>>

ApplyBoneIkCall ==
    /\ Called
    /\ \E name \in IkBones, target \in IkTargets :
          LET r == SkeletonApplyBoneIk(figure.skeleton, name, target, TRUE, FALSE)
          IN  /\ figure' = [figure EXCEPT !.skeleton = r.skeleton]
              /\ aborted' = r.aborted
              /\ op' = [name |-> "apply_bone_ik",
                        unknown |-> NameToIndex(figure.skeleton, name) = NoBone,
                        had_ragdoll |-> SkeletonHasRagdoll(figure.skeleton)]
    /\ UNCHANGED <<clock, detached_at_death>>

TransitionToCall ==
    /\ Called
    /\ \E state \in StateNames :
          /\ figure' = [figure EXCEPT !.skeleton.animator = AnimatorTransitionTo(@, state)]
          /\ op' = [name |-> "transition_to",
                    unknown |-> state \notin DOMAIN figure.skeleton.animator.states]
    /\ UNCHANGED <<clock, detached_at_death, aborted>>

SetLocalTransformCall ==
    /\ Called
    /\ \E t \in Transforms :
          figure' = [figure EXCEPT !.skeleton = SkeletonSetLocalTransform(@, t)]
    /\ op' = [name |-> "set_local_transform"]
    /\ UNCHANGED <<clock, detached_at_death, aborted>>

SetWorldOffsetCall ==
    /\ Called
    /\ \E p \in WorldOffsets :
          figure' = [figure EXCEPT !.skeleton = SkeletonSetWorldOffset(@, p)]
    /\ op' = [name |-> "set_world_offset"]
    /\ UNCHANGED <<clock, detached_at_death, aborted>>

SkeletonStepCall ==
    /\ Called
    /\ figure' = [figure EXCEPT !.skeleton =
                    SkeletonStep(@, FrameTime, FallGravity,
                                 FloorCollider(FigureFloor, figure.skeleton.world_position,
                                               FALSE))]
    /\ op' = [name |-> "step"]
    /\ UNCHANGED <<clock, detached_at_death, aborted>>

Next ==
    \/ SetStateCall
    \/ DrawCall
    \/ AttachCall
    \/ DetachCall
    \/ ApplyBoneAngleCall
    \/ ApplyBoneIkCall
    \/ TransitionToCall
    \/ SetLocalTransformCall
    \/ SetWorldOffsetCall
    \/ SkeletonStepCall

Spec == Init /\ [][Next]_vars

HasRagdoll == SkeletonHasRagdoll(figure.skeleton)


\* C1: set_state is edge-triggered on is_alive.  After every set_state(s) the
\* skeleton has a ragdoll exactly when s is dead; a call with a dead state on
\* a figure that already has its ragdoll leaves the skeleton (and so the
\* ragdoll), the accessories and ragdoll_timer as they were, and so does a
\* call with an alive state on a figure without ragdoll.
C1_EdgeTriggered ==
    [][ op'.name = "set_state"
        => /\ ~aborted'
           /\ SkeletonHasRagdoll(figure'.skeleton) <=> ~op'.is_alive
           /\ (op'.had_ragdoll <=> ~op'.is_alive)
                => /\ figure'.skeleton = figure.skeleton
                   /\ figure'.accessories = figure.accessories
                   /\ figure'.ragdoll_timer = figure.ragdoll_timer ]_vars

\* a set_state with a dead state has found the ragdoll of an earlier death,
\* some frames old
C1_Witness ==
    /\ op.name = "set_state"
    /\ ~op.is_alive
    /\ op.had_ragdoll
    /\ HasRagdoll
    /\ figure.ragdoll_timer > 0

\* C2: over every call that starts and ends with the skeleton owning a ragdoll
\* the local transform and the world offset of the skeleton stay as they are.
C2_FrozenInRagdoll ==
    [][ (HasRagdoll /\ SkeletonHasRagdoll(figure'.skeleton))
        => /\ figure'.skeleton.local_transform = figure.skeleton.local_transform
           /\ figure'.skeleton.world_position = figure.skeleton.world_position ]_vars

\* a draw in ragdoll whose state asks for another facing and another offset
\* than the skeleton has
C2_Witness ==
    /\ op.name = "draw"
    /\ op.had_ragdoll
    /\ HasRagdoll
    /\ Facing(figure.state.direction + D90) # figure.skeleton.local_transform
    /\ FigureWorldOffset(figure) # figure.skeleton.world_position

\* C3: while the skeleton owns a ragdoll, a draw leaves the animator's current
\* and previous state, its blend timer and its speeds and every bone's angle
\* and offset angle unchanged, and apply_bone_ik changes no bone.
C3_AnimatorAndIkIdleInRagdoll ==
    [][ /\ (op'.name = "draw" /\ op'.had_ragdoll)
            => /\ figure'.skeleton.animator.current = figure.skeleton.animator.current
               /\ figure'.skeleton.animator.previous = figure.skeleton.animator.previous
               /\ figure'.skeleton.animator.blend_timer
                      = figure.skeleton.animator.blend_timer
               /\ figure'.skeleton.animator.speeds = figure.skeleton.animator.speeds
               /\ \A i \in DOMAIN figure.skeleton.bones :
                     /\ figure'.skeleton.bones[i].angle = figure.skeleton.bones[i].angle
                     /\ figure'.skeleton.bones[i].offset_angle
                            = figure.skeleton.bones[i].offset_angle
        /\ (op'.name = "apply_bone_ik" /\ op'.had_ragdoll)
            => figure'.skeleton.bones = figure.skeleton.bones ]_vars

\* C4: after a set_state with an alive state that found a ragdoll, the ragdoll
\* is gone and every accessory of the figure reports attached.
C4_RevivedAttachesAll ==
    (op.name = "set_state" /\ op.is_alive /\ op.had_ragdoll)
        => /\ ~HasRagdoll
           /\ \A n \in DOMAIN figure.accessories : AccessoryAttached(figure.accessories[n])

\* the figure is revived after a death that found the weapon detached by the
\* caller
C4_Witness ==
    /\ op.name = "set_state"
    /\ op.is_alive
    /\ op.had_ragdoll
    /\ "Weapon" \in detached_at_death

\* C9: apply_bone_angle, apply_bone_ik, attach, detach and transition_to,
\* called with a name that does not exist, do not abort and change nothing.
C9_UnknownNameIsNoOp ==
    [][ ( /\ op'.name \in { "apply_bone_angle", "apply_bone_ik", "attach", "detach",
                            "transition_to" }
          /\ op'.unknown )
        => (~aborted' /\ figure' = figure) ]_vars

(***************************************************************************)
(* SpecSkeleton: a skeleton built by Skeleton::new from a description and  *)
(* driven through its public API: step, apply_bone_ik, apply_bone_angle,   *)
(* the animator's transition_to, set_local_transform, set_world_offset,    *)
(* start_ragdoll and stop_ragdoll.                                         *)
(***************************************************************************)

\* bound on the number of calls made on the skeleton
MaxSkeletonCalls == 4

\* a three-bone limb whose root is listed first and whose lower bone is
\* listed before the upper bone it hangs on
LimbRootFirst ==
    [ bones |-> <<
        SkeletalBone("Root",  "Root",  4 * Unit,  -D90, One, None, None),
        SkeletalBone("Lower", "Upper", 8 * Unit,  D45,  One, None, None),
        SkeletalBone("Upper", "Root",  10 * Unit, D22,  One, None, None) >>,
      ragdoll_parents |-> <<>>,
      constraints |-> <<>> ]

\* the same limb with the root listed second
LimbRootSecond ==
    [ bones |-> <<
        SkeletalBone("Upper", "Root",  10 * Unit, D22,  One, None, None),
        SkeletalBone("Root",  "Root",  4 * Unit,  -D90, One, None, None),
        SkeletalBone("Lower", "Upper", 8 * Unit,  D45,  One, None, None) >>,
      ragdoll_parents |-> <<>>,
      constraints |-> <<>> ]

\* the descriptions Skeleton::new is called with
SkeletonDescriptions == { DefaultFigureSkeleton, LimbRootFirst, LimbRootSecond }

\* the bones apply_bone_ik is called for, where the skeleton has them
SkeletonIkBones == { "L.Hand", "Lower" }

\* the targets of apply_bone_ik: within reach of both chains, beyond the
\* reach of both, and at the start of the limb's upper bone
SkeletonIkTargets == { <<10 * Unit, -(10 * Unit)>>, <<60 * Unit, -(10 * Unit)>>,
                       <<0, -(4 * Unit)>> }

\* the bones apply_bone_angle is called for
SkeletonAngleBones == { "Back", "Upper" }

\* the floor the ragdoll falls on, in local coordinates
SkeletonFloor == 30 * Unit

InitSkeleton ==
    /\ \E d \in SkeletonDescriptions :
          skel = IF d = DefaultFigureSkeleton
                 THEN SkeletonSetAnimator(SkeletonNew(d), FigureAnimator)
                 ELSE SkeletonNew(d)
    /\ skel_calls = 0
    /\ aborted = FALSE
    /\ op = [name |-> "new"]
    /\ PSUnused
    /\ WeaponUnused
    /\ RagdollUnused
    /\ FigureUnused
    /\ AnimatorUnused
    /\ RigidUnused
    /\ HasherUnused

\* what every call on the skeleton starts with
SkeletonCalled ==
    /\ ~aborted
    /\ skel_calls < MaxSkeletonCalls
    /\ skel_calls' = skel_calls + 1
    /\ UNCHANGED nonSkVars

\* the indices the second loop of step places: those of child_last_indices
Computed(sk) == { sk.child_last_indices[k] : k \in DOMAIN sk.child_last_indices }

StepCall ==
    /\ SkeletonCalled
    /\ skel' = SkeletonStep(skel, FrameTime, FallGravity,
                            FloorCollider(SkeletonFloor, Zero, FALSE))
    /\ op' = [name |-> "step", had_ragdoll |-> SkeletonHasRagdoll(skel),
              ik |-> \E i \in DOMAIN skel.bones :
                        skel.bones[i].angle # skel.bones[i].animation_angle]
    /\ UNCHANGED aborted

\* the squared distance of the target from the start of the parent of bone i
TargetDistance2(sk, i, target) ==
    VDot(VSub(target, sk.bones[sk.bones[i].parent].start),
         VSub(target, sk.bones[sk.bones[i].parent].start))

\* L1 + L2 for the chain that ends in bone i
ChainLength(sk, i) == sk.bones[sk.bones[i].parent].data.length + sk.bones[i].data.length

BoneIkCall ==
    /\ SkeletonCalled
    /\ \E name \in SkeletonIkBones, target \in SkeletonIkTargets :
          LET i == NameToIndex(skel, name)
              r == SkeletonApplyBoneIk(skel, name, target, TRUE, FALSE)
          IN  /\ i # NoBone
              /\ skel' = r.skeleton
              /\ aborted' = r.aborted
              /\ op' = [name |-> "apply_bone_ik", bone |-> i, target |-> target,
                        had_ragdoll |-> SkeletonHasRagdoll(skel),
                        solved |-> IsSome(SolveBoneIk(FALSE,
                                       skel.bones[skel.bones[i].parent].data.length,
                                       skel.bones[i].data.length,
                                       target[1] - skel.bones[skel.bones[i].parent].start[1],
                                       target[2] - skel.bones[skel.bones[i].parent].start[2])),
                        far |-> TargetDistance2(skel, i, target)
                                    > ChainLength(skel, i) * ChainLength(skel, i)]

BoneAngleCall ==
    /\ SkeletonCalled
    /\ \E name \in SkeletonAngleBones :
          /\ NameToIndex(skel, name) # NoBone
          /\ skel' = SkeletonApplyBoneAngle(skel, name, D22)
    /\ op' = [name |-> "apply_bone_angle"]
    /\ UNCHANGED aborted

AnimatorTransitionCall ==
    /\ SkeletonCalled
    /\ skel' = [skel EXCEPT !.animator = AnimatorTransitionTo(@, "Run")]
    /\ op' = [name |-> "transition_to"]
    /\ UNCHANGED aborted

LocalTransformCall ==
    /\ SkeletonCalled
    /\ skel' = SkeletonSetLocalTransform(skel, <<-1, 1>>)
    /\ op' = [name |-> "set_local_transform"]
    /\ UNCHANGED aborted

WorldOffsetCall ==
    /\ SkeletonCalled
    /\ skel' = SkeletonSetWorldOffset(skel, <<50 * Unit, 50 * Unit>>)
    /\ op' = [name |-> "set_world_offset"]
    /\ UNCHANGED aborted

StartRagdollCall ==
    /\ SkeletonCalled
    /\ LET r == SkeletonStartRagdoll(skel)
       IN  /\ skel' = r.skeleton
           /\ aborted' = r.aborted
    /\ op' = [name |-> "start_ragdoll", before |-> skel]

StopRagdollCall ==
    /\ SkeletonCalled
    /\ skel' = SkeletonStopRagdoll(skel)
    /\ op' = [name |-> "stop_ragdoll",
              after_start |-> op.name = "start_ragdoll",
              before |-> IF op.name = "start_ragdoll" THEN op.before ELSE skel]
    /\ UNCHANGED aborted

NextSkeleton ==
    \/ StepCall
    \/ BoneIkCall
    \/ BoneAngleCall
    \/ AnimatorTransitionCall
    \/ LocalTransformCall
    \/ WorldOffsetCall
    \/ StartRagdollCall
    \/ StopRagdollCall

SpecSkeleton == InitSkeleton /\ [][NextSkeleton]_vars

\* the angle, start and end of every bone of a skeleton
Pose(sk) ==
    [i \in DOMAIN sk.bones |->
        [angle |-> sk.bones[i].angle, start |-> sk.bones[i].start, end |-> sk.bones[i].end]]

\* C11: when solve_bone_ik reports no solution for the target, apply_bone_ik
\* applies nothing: the call leaves every bone (its angle, start and end, the
\* parent and the named bone included) and the rest of the skeleton as they
\* were, and it does not panic.
C11_NoSolutionAppliesNothing ==
    [][ (op'.name = "apply_bone_ik" /\ ~op'.had_ragdoll /\ ~op'.solved)
            => (~aborted' /\ Pose(skel') = Pose(skel) /\ skel' = skel) ]_vars

\* an unsolvable target was given after a step has posed the bones
C11_Witness ==
    /\ op.name = "apply_bone_ik" /\ ~op.had_ragdoll /\ ~op.solved
    /\ \E i \in DOMAIN skel.bones : skel.bones[i].end # Zero

\* how far two angles are apart, in milliradians
AngleBetween(a, b) == Abs(WrapAngle(a - b))

\* C12: apply_bone_ik with a target farther than L1 + L2 from the start of the
\* parent bone leaves the chain fully extended towards the target: the named
\* bone's angle equals its parent's (relative angle 0), and the parent points
\* from its start to the target (to within 10 milliradians).
C12_FarTargetExtends ==
    (op.name = "apply_bone_ik" /\ ~op.had_ragdoll /\ op.far /\ ~aborted)
        => LET b == skel.bones[op.bone]
               p == skel.bones[b.parent]
           IN  /\ AngleBetween(b.angle, p.angle) <= 10
               /\ AngleBetween(p.angle, IAtan2(op.target[2] - p.start[2],
                                               op.target[1] - p.start[1])) <= 10

\* C16: after every non-ragdoll step, every bone with a parent starts at the
\* end its parent was given in that same step (the parent is among the bones
\* the step placed), and a bone without parent starts at the origin; for every
\* description, whatever the order of its bones.
C16_ChildStartsAtParentEnd ==
    (op.name = "step" /\ ~op.had_ragdoll)
        => \A i \in DOMAIN skel.bones :
              IF skel.bones[i].parent = NoBone
              THEN skel.bones[i].start = Zero
              ELSE /\ skel.bones[i].start = skel.bones[skel.bones[i].parent].end
                   /\ skel.bones[i].parent \in Computed(skel)

\* a point of animation space seen in world space, as bone_start and bone_end
\* give it for Space::World
InWorld(sk, p) == ToWorld(sk, VScale(p, sk.local_transform))

\* C17: after a non-ragdoll step, world_bounds() is a pair (min, max) with
\* min <= max in both components that contains the world-space start and end
\* of every bone as that step placed them, whichever way the skeleton faces.
C17_WorldBoundsContainBones ==
    (op.name = "step" /\ ~op.had_ragdoll)
        => LET lo == SkeletonWorldBounds(skel)[1]
               hi == SkeletonWorldBounds(skel)[2]
               Inside(p) == /\ lo[1] <= p[1] /\ p[1] <= hi[1]
                            /\ lo[2] <= p[2] /\ p[2] <= hi[2]
           IN  /\ lo[1] <= hi[1]
               /\ lo[2] <= hi[2]
               /\ \A i \in DOMAIN skel.bones :
                     /\ Inside(InWorld(skel, skel.bones[i].start))
                     /\ Inside(InWorld(skel, skel.bones[i].end))

\* the spaces of bone_start and bone_end
Spaces == { "World", "Local", "Animation" }

\* the bone names of a skeleton
BoneNames(sk) == { sk.bones[i].data.name : i \in DOMAIN sk.bones }

\* C18: start_ragdoll on a skeleton without ragdoll, immediately followed by
\* stop_ragdoll, restores the pose:
\* every bone's angle, start and end, and every bone_start and bone_end query
\* in every space, are as they were before start_ragdoll, and no ragdoll
\* is left.
C18_StartStopRestoresPose ==
    (op.name = "stop_ragdoll" /\ op.after_start /\ ~SkeletonHasRagdoll(op.before))
        => /\ ~SkeletonHasRagdoll(skel)
           /\ Pose(skel) = Pose(op.before)
           /\ \A space \in Spaces, name \in BoneNames(skel) :
                 /\ BoneStart(skel, space, name) = BoneStart(op.before, space, name)
                 /\ BoneEnd(skel, space, name) = BoneEnd(op.before, space, name)

\* the ragdoll was started on a stepped, mirrored and offset skeleton
C18_Witness ==
    /\ op.name = "stop_ragdoll" /\ op.after_start
    /\ ~SkeletonHasRagdoll(op.before)
    /\ \E i \in DOMAIN skel.bones : skel.bones[i].end # Zero
    /\ skel.local_transform = <<-1, 1>>

(***************************************************************************)
(* SpecAnimator: an animator made by an AnimatorBuilder and driven by      *)
(* set_speed, transition_to and update, the frame bones being reset to the *)
(* rest angles of the default skeleton before every update, as             *)
(* Skeleton::step does.                                                    *)
(***************************************************************************)

\* bound on the number of calls made on the animator
MaxAnimatorCalls == 4

\* an animator built with a blend that leaves a state for any other:
\* with_blend("Run", "*", 0.3), with_blend("*", "Idle", 0.2),
\* with_default_blend(0.1), and the states Idle, Jump and Run
WildcardAnimator ==
    [ AnimatorEmpty EXCEPT
        !.states = [n \in {"Idle", "Jump", "Run"} |->
                        AnimatorStateWith(CASE n = "Idle" -> "IDLE_ANIMATION"
                                            [] n = "Jump" -> "JUMP_ANIMATION"
                                            [] n = "Run"  -> "RUN_ANIMATION")],
        !.blends = [k \in { <<"Run", "*">>, <<"*", "Idle">> } |->
                        CASE k = <<"Run", "*">>  -> Centis(30)
                          [] k = <<"*", "Idle">> -> Centis(20)],
        !.default_blend = Centis(10) ]

\* the animators under test
Animators == { FigureAnimator, WildcardAnimator }

\* the states transition_to is called with; no animator has a state "Fly"
AnimatorStates == { "Idle", "Jump", "Run", "Fly" }

\* the frame bones update is called with: the rest angles
RestBones == ToAnimationBones(DefaultFigureSkeleton)

InitAnimator ==
    /\ anim \in Animators
    /\ anim_bones = RestBones
    /\ anim_calls = 0
    /\ aborted = FALSE
    /\ op = [name |-> "new"]
    /\ PSUnused
    /\ WeaponUnused
    /\ RagdollUnused
    /\ FigureUnused
    /\ SkeletonUnused
    /\ RigidUnused
    /\ HasherUnused

\* what every call on the animator starts with
AnimatorCalled ==
    /\ anim_calls < MaxAnimatorCalls
    /\ anim_calls' = anim_calls + 1
    /\ UNCHANGED nonAnVars

SetSpeedCall ==
    /\ AnimatorCalled
    /\ anim' = AnimatorSetSpeed(anim, "Run", 150)
    /\ op' = [name |-> "set_speed"]
    /\ UNCHANGED anim_bones

TransitionCall ==
    /\ AnimatorCalled
    /\ \E state \in AnimatorStates :
          /\ anim' = AnimatorTransitionTo(anim, state)
          /\ op' = [name |-> "transition_to", state |-> state]
    /\ UNCHANGED anim_bones

\* the frame times update is called with: a frame at 20 frames per second, a
\* frame longer than the gap between two key frames, and one longer than any
\* animation
AnimatorFrameTimes == { FrameTime, 8 * FrameTime, 30 * FrameTime }

UpdateCall ==
    /\ AnimatorCalled
    /\ \E dt \in AnimatorFrameTimes :
          LET r == AnimatorUpdate(anim, dt, RestBones)
          IN  /\ anim' = r.animator
              /\ anim_bones' = r.bones
              /\ op' = [name |-> "update", dt |-> dt]

NextAnimator == SetSpeedCall \/ TransitionCall \/ UpdateCall

SpecAnimator == InitAnimator /\ [][NextAnimator]_vars

\* the blend duration the priority order gives for a transition from the
\* state an animator is in (if any) to the state named
BlendByPriority(an, name) ==
    IF IsSome(an.current) /\ <<Unwrap(an.current), name>> \in DOMAIN an.blends
    THEN an.blends[<<Unwrap(an.current), name>>]
    ELSE IF <<"*", name>> \in DOMAIN an.blends
    THEN an.blends[<<"*", name>>]
    ELSE IF IsSome(an.current) /\ <<Unwrap(an.current), "*">> \in DOMAIN an.blends
    THEN an.blends[<<Unwrap(an.current), "*">>]
    ELSE an.default_blend

\* C13: every transition_to(name) that changes the current state resets the
\* blend timer to 0 and sets the blend duration to the first defined entry
\* among blends[(previous, name)], blends[("*", name)], blends[(previous, "*")]
\* and the default blend, previous being the state that is left; on the first
\* transition, where no state is left, ("*", name) still goes before the
\* default.
C13_BlendByPriority ==
    [][ (op'.name = "transition_to" /\ anim'.current # anim.current)
            => /\ anim'.current = Some(op'.state)
               /\ anim'.previous = anim.current
               /\ anim'.blend_timer = 0
               /\ anim'.blend_duration = BlendByPriority(anim, op'.state) ]_vars

\* the frame bones a state adds its values to with a weight
Weighted(an, state, weight, bones) ==
    AnimatorStateApplyToBones(an.states[state], weight, bones)

C15_SpeedOfChosenState ==
    (op.name = "draw" /\ ~op.had_ragdoll /\ figure.state.is_alive /\ ~aborted)
        => LET an == figure.skeleton.animator
               vx == Abs(figure.state.velocity[1])
           IN  /\ IsSome(an.current)
               /\ an.current = Some("Run")
                     => /\ "Run" \in DOMAIN an.speeds
                        /\ an.speeds["Run"] = Div(vx * 10, 35)
               /\ an.current = Some("Jump")
                     => /\ "Jump" \in DOMAIN an.speeds
                        /\ an.speeds["Jump"] = Min(Max(vx, One), 150)
               /\ an.current = Some("Idle") => "Idle" \in DOMAIN an.speeds

(***************************************************************************)
(* SpecRigid: a rigid body built by RigidBody::new from a template and     *)
(* driven by step_static, make_dynamic, apply_dynamic_force and            *)
(* step_dynamic.  rigid.data is the template, rigid.body the RigidBody.    *)
(***************************************************************************)

\* bound on the number of calls made on the rigid body
MaxRigidCalls == 3

\* the rifle with a sight: a point that no constraint of the template names
SightedRifleData ==
    [ RifleData EXCEPT !.points = Append(@, [name |-> "Sight", x |-> 20, y |-> -3]) ]

\* the templates RigidBody::new is called with
RigidTemplates == { RifleData, SightedRifleData }

\* the arguments of step_static
RigidPositions == { <<100 * Unit, 100 * Unit>> }

RigidOffsets == { Zero, <<-(6 * Unit), 0>> }

RigidScales == { <<1, 1>>, <<1, -1>> }

RigidAngles == { 0, D45 }

\* the floor of step_dynamic's collision callback
RigidFloor == 120 * Unit

InitRigid ==
    /\ \E d \in RigidTemplates : rigid = [data |-> d, body |-> RigidBodyNew(d)]
    /\ rigid_calls = 0
    /\ aborted = FALSE
    /\ op = [name |-> "new"]
    /\ PSUnused
    /\ WeaponUnused
    /\ RagdollUnused
    /\ FigureUnused
    /\ SkeletonUnused
    /\ AnimatorUnused
    /\ HasherUnused

\* what every call on the rigid body starts with
RigidCalled ==
    /\ rigid_calls < MaxRigidCalls
    /\ rigid_calls' = rigid_calls + 1
    /\ UNCHANGED nonRbVars

StepStaticCall ==
    /\ RigidCalled
    /\ \E p \in RigidPositions, offset \in RigidOffsets,
          scale \in RigidScales, angle \in RigidAngles :
          rigid' = [rigid EXCEPT !.body = RigidStepStatic(@, p, offset, scale, angle)]
    /\ op' = [name |-> "step_static"]

MakeDynamicCall ==
    /\ RigidCalled
    /\ rigid' = [rigid EXCEPT !.body = RigidMakeDynamic(@)]
    /\ op' = [name |-> "make_dynamic"]

ApplyDynamicForceCall ==
    /\ RigidCalled
    /\ rigid' = [rigid EXCEPT !.body =
                    RigidApplyDynamicForce(@, <<-(8 * Unit), -(15 * Unit)>>)]
    /\ op' = [name |-> "apply_dynamic_force"]

StepDynamicCall ==
    /\ RigidCalled
    /\ rigid' = [rigid EXCEPT !.body =
                    RigidStepDynamic(@, FrameTime, ConfigGravity,
                                     FloorCollider(RigidFloor, Zero, FALSE))]
    /\ op' = [name |-> "step_dynamic"]

NextRigid == StepStaticCall \/ MakeDynamicCall \/ ApplyDynamicForceCall \/ StepDynamicCall

SpecRigid == InitRigid /\ [][NextRigid]_vars

\* C19: after make_dynamic the particle system is active and, for every point
\* of the template, referenced by a constraint or not, the particle of the
\* same index is at the point transformed by the static transform (offset,
\* scale, angle, position) and has inverse mass 1.
C19_MakeDynamicPlacesAllPoints ==
    (op.name = "make_dynamic")
        => /\ PSActive(rigid.body.particles)
           /\ \A k \in DOMAIN rigid.data.points :
                 /\ rigid.body.particles.particles[k].position
                       = RigidTransform(rigid.body, <<rigid.data.points[k].x * Unit,
                                                      rigid.data.points[k].y * Unit>>)
                 /\ rigid.body.particles.particles[k].inv_mass = One

(***************************************************************************)
(* SpecRuns: one run of a program that owns a stick figure, adds           *)
(* accessories to it, sets its state and draws it.  The figure keeps its   *)
(* accessories in a std HashMap keyed by name (stick_figure.rs 332), built *)
(* by HashMap::new() (389): the map's RandomState is seeded anew in every  *)
(* run, so the order in which values() and values_mut() yield the entries  *)
(* is fixed within a run and differs between runs.  hasher is that order.  *)
(* The figure starts as the example builds it, with a scarf and a rifle.   *)
(***************************************************************************)

MaxRunCalls == 3

\* the names accessories are added under, and the bones they are bound to
RunAccessoryNames == { "Scarf", "Weapon", "Sidearm" }

RunNewNames == { "Sidearm" }

RunBones == { "Back", "Hip" }

\* every order a map over RunAccessoryNames can yield its keys in
Hashers ==
    { h \in [1..Cardinality(RunAccessoryNames) -> RunAccessoryNames] :
        \A i, j \in DOMAIN h : h[i] = h[j] => i = j }

\* the order in which a map with the keys S yields them under the hasher h
OrderIn(h, S) == SelectSeq(h, LAMBDA n : n \in S)

\* the colour the example gives both accessories, 0x00ff_ff00
AccessoryColor == 16776960

\* renderer.draw_line(a, b, color)
DrawLine(a, b, color) == [call |-> "draw_line", a |-> a, b |-> b, color |-> color]

\* Weapon::draw: the visible constraints of the dynamic body, or the visible
\* lines of the static one
WeaponDraw(w) ==
    IF w.has_ragdoll
    THEN LET s   == w.rigid.particles
             vis == SelectSeq(s.constraints, LAMBDA c : c.visual)
         IN  [k \in DOMAIN vis |->
                DrawLine(s.particles[FirstParticle(vis[k])].position,
                         s.particles[SecondParticle(vis[k])].position, AccessoryColor)]
    ELSE LET vis == SelectSeq(w.rigid.lines, LAMBDA l : l.visible)
         IN  [k \in DOMAIN vis |->
                DrawLine(RigidTransform(w.rigid, vis[k].a.pos),
                         RigidTransform(w.rigid, vis[k].b.pos), AccessoryColor)]

\* Scarf::draw: a line for each particle and the next
ScarfDraw(sc) ==
    LET P == sc.particles.particles
    IN  [i \in 1..(Len(P) - 1) |->
            DrawLine(VAdd(sc.offset, P[i].position), VAdd(sc.offset, P[i + 1].position),
                     AccessoryColor)]

AccessoryDraw(a) == IF a.kind = "Weapon" THEN WeaponDraw(a) ELSE ScarfDraw(a)

RECURSIVE AccessoriesDrawn(_, _)
\* the renderer calls of draw's last loop over the accessories named in names
AccessoriesDrawn(accessories, names) ==
    IF names = <<>> THEN <<>>
    ELSE AccessoryDraw(accessories[Head(names)]) \o AccessoriesDrawn(accessories, Tail(names))

\* StickFigure::draw when the map yields the accessories in the order names,
\* with the renderer calls its accessories make
FigureDrawIn(f0, dt, time, floor, names) ==
    LET f == FigureStepped(FigurePosed(FigureUpdate(f0, dt)), dt, floor)
        r == FigureDrawn(f0, f, FigureIksIn(f, floor, names), dt, time, floor)
    IN  [aborted  |-> r.aborted,
         figure   |-> r.figure,
         rendered |-> IF r.aborted THEN <<>>
                      ELSE AccessoriesDrawn(r.figure.accessories, names)]

\* what a draw leaves for an observer: the bones and the renderer calls
Observed(r) ==
    [aborted |-> r.aborted, bones |-> r.figure.skeleton.bones, rendered |-> r.rendered]

InitRuns ==
    /\ figure = AddAccessory(AddAccessory(StickFigureNew(Standing),
                                          "Scarf", "Neck", ScarfNew(24 * Unit, 6)),
                             "Weapon", "Back", WeaponNew(RifleData))
    /\ hasher \in Hashers
    /\ clock = 0
    /\ calls = 0
    /\ detached_at_death = {}
    /\ aborted = FALSE
    /\ op = [name |-> "new"]
    /\ PSUnused
    /\ WeaponUnused
    /\ RagdollUnused
    /\ SkeletonUnused
    /\ AnimatorUnused
    /\ RigidUnused

RunCalled ==
    /\ ~aborted
    /\ calls < MaxRunCalls
    /\ calls' = calls + 1
    /\ UNCHANGED <<nonFigVars, detached_at_death>>

RunAddAccessoryCall ==
    /\ RunCalled
    /\ \E name \in RunNewNames, bone \in RunBones :
          /\ figure' = AddAccessory(figure, name, bone, WeaponNew(RifleData))
          /\ op' = [name |-> "add_accessory", accessory |-> name, bone |-> bone]
    /\ UNCHANGED <<clock, aborted>>

RunSetStateCall ==
    /\ RunCalled
    /\ \E s \in PlayerStates :
          LET r == FigureSetState(figure, s)
          IN  /\ figure' = r.figure
              /\ aborted' = r.aborted
              /\ op' = [name |-> "set_state", is_alive |-> s.is_alive]
    /\ UNCHANGED clock

\* draw in this run, and next to it what the same draw of the same figure
\* gives in the runs whose map yields another order
RunDrawCall ==
    /\ RunCalled
    /\ LET names == DOMAIN figure.accessories
           Drawn(h) == FigureDrawIn(figure, FrameTime, clock + FrameTime, FigureFloor,
                                    OrderIn(h, names))
           r == Drawn(hasher)
       IN  /\ figure' = r.figure
           /\ aborted' = r.aborted
           /\ op' = [name |-> "draw",
                     accessories |-> names,
                     runs |-> { Observed(Drawn(CHOOSE h \in Hashers : OrderIn(h, names) = o)) :
                                  o \in { OrderIn(h, names) : h \in Hashers } }]
    /\ clock' = clock + FrameTime

NextRuns ==
    \/ RunAddAccessoryCall
    \/ RunSetStateCall
    \/ RunDrawCall

SpecRuns == InitRuns /\ [][NextRuns]_vars

\* C20: two runs given the same calls with the same inputs produce the same
\* bone poses and the same renderer calls in the same order, whatever order
\* the hash map yields the accessories in: a draw has one observable result
\* over all the orders the map can have.
C20_RunsAgree ==
    op.name = "draw" => Cardinality(op.runs) = 1

(***************************************************************************)
(* Claims of the third group, C21 to C30                                   *)
(***************************************************************************)

RECURSIVE PassesMoved(_, _, _, _)
\* for each relaxation pass of satisfy_constraints, in order, whether at_rest
\* answered false for a particle in it
PassesMoved(iterations, P, constraints, collider) ==
    IF iterations = 0 THEN <<>>
    ELSE <<Relax(P, constraints, collider).moved>>
         \o PassesMoved(iterations - 1, Relax(P, constraints, collider).particles,
                        constraints, collider)

\* the passes of step() on the system s
StepPasses(s, time_step, gravity, collider) ==
    PassesMoved(s.iterations, Verlet(time_step, AccumulateForces(gravity, s.particles)),
                s.constraints, collider)

\* C21: a step of an active system in which some whole relaxation pass moved
\* no particle above the rest threshold decrements the activity, also when
\* another pass of the same step did move one.
C21_QuietPassDecrements ==
    [][ (/\ op'.name = "step"
         /\ op'.was_active
         /\ \E k \in DOMAIN StepPasses(ps, FrameTime, op'.gravity, op'.collider) :
               ~StepPasses(ps, FrameTime, op'.gravity, op'.collider)[k])
        => ps'.activity = SaturatingDec(ps.activity) ]_vars

\* the instances of an animator's states
Instances(an) ==
    UNION { { an.states[n].animations[k] : k \in DOMAIN an.states[n].animations } :
                n \in DOMAIN an.states }

\* the end of the interval of the key frame k: the time of the key frame after
\* it, or the duration for the last one
KeyEnd(data, k) ==
    IF k = Len(data.key_frames) THEN data.duration ELSE data.key_frames[k + 1].time

\* the time cursor of a lies inside the interval of its current key frame
InsideKey(a) ==
    /\ AnimationData(a.data).key_frames[a.key_index].time <= a.time
    /\ a.time < KeyEnd(AnimationData(a.data), a.key_index)

\* C22: after every update, whatever dt and speed were, every animation
\* instance has a key index below the key frame count, a time cursor inside
\* the interval of its current key frame, and a blend fraction in [0, 1].
C22_CursorInsideKey ==
    op.name = "update"
        => \A a \in Instances(anim) :
              /\ a.key_index \in DOMAIN AnimationData(a.data).key_frames
              /\ InsideKey(a)
              /\ 0 <= a.blend /\ a.blend <= 1000

\* the constraint split_bone_from_parent(name) is about, and the two sets of
\* joints split_off_joint reaches from its two ends
SplitTarget(rag, name) == rag.constraints[rag.constraint_name_map[name]]

LeftPoints(rag, name) ==
    FindPointsBehindConstraint(rag, rag.constraint_name_map[name],
                               FirstParticle(SplitTarget(rag, name)), {})

RightPoints(rag, name) ==
    FindPointsBehindConstraint(rag, rag.constraint_name_map[name],
                               SecondParticle(SplitTarget(rag, name)), {})

\* c has one end in each of the sets, in either orientation
Between(c, left_points, right_points) ==
    \/ FirstParticle(c) \in left_points /\ SecondParticle(c) \in right_points
    \/ SecondParticle(c) \in left_points /\ FirstParticle(c) \in right_points

\* the constraints of a ragdoll, as a set
ConstraintsOf(rag) == { rag.constraints[k] : k \in DOMAIN rag.constraints }

\* C23: a split_bone_from_parent that returns has removed, beside the target
\* constraint it replaces, exactly the constraints that are not visible and
\* have one end in each of the two sets of joints reached from the target's
\* ends, in either orientation; no visible constraint is removed, also when
\* the two sets overlap.
C23_RemovesHiddenCrossing ==
    [][ (/\ op'.name = "split_bone_from_parent"
         /\ op'.bone \in DOMAIN ragdoll.constraint_name_map
         /\ ~aborted')
        => (ConstraintsOf(ragdoll) \ ConstraintsOf(ragdoll')) \ {SplitTarget(ragdoll, op'.bone)}
              = { c \in ConstraintsOf(ragdoll) \ {SplitTarget(ragdoll, op'.bone)} :
                    /\ ~c.visual
                    /\ Between(c, LeftPoints(ragdoll, op'.bone),
                               RightPoints(ragdoll, op'.bone)) } ]_vars

\* the constraint now registered under name is the visible stick from the
\* first joint of the constraint t to the clone of t's second joint
SplitOff(before, after, name, t) ==
    /\ name \in DOMAIN after.constraint_name_map
    /\ SplitTarget(after, name).typ = "Stick"
    /\ SplitTarget(after, name).visual
    /\ SplitTarget(after, name).a = FirstParticle(t)
    /\ SplitTarget(after, name).b = Len(before.joints) + 1
    /\ after.joints[Len(before.joints) + 1] = before.joints[SecondParticle(t)]
    /\ SplitTarget(after, name).rest_length =
          VLen(VSub(after.joints[Len(before.joints) + 1].position,
                    after.joints[FirstParticle(t)].position))

\* C24: a split_bone_from_parent(name) that returns has added exactly one
\* joint, the constraint registered under name is a visible stick from the
\* bone's own joint to the new clone of the parent-side joint whose rest
\* length is their distance, and every other constraint the ragdoll has
\* afterwards is one it had before, with the same ends, name and kind.
C24_SplitReplacesTarget ==
    [][ (/\ op'.name = "split_bone_from_parent"
         /\ op'.bone \in DOMAIN ragdoll.constraint_name_map
         /\ ~aborted')
        => /\ Len(ragdoll'.joints) = Len(ragdoll.joints) + 1
           /\ SplitOff(ragdoll, ragdoll', op'.bone, SplitTarget(ragdoll, op'.bone))
           /\ \A k \in DOMAIN ragdoll'.constraints :
                 \/ k = ragdoll'.constraint_name_map[op'.bone]
                 \/ ragdoll'.constraints[k] \in ConstraintsOf(ragdoll) ]_vars

\* the position of the ragdoll joint with the index i
JointAt(sk, i) == Unwrap(sk.ragdoll).joints[i].position

\* C25: while a ragdoll is active, the local-space end of every bone is the
\* position of the joint with the bone's index, and the local-space start of
\* every bone that has a ragdoll parent is the position of the joint with the
\* index of that parent; the root and the limbs split off at start_ragdoll are
\* no exception.
C25_BonesFollowJoints ==
    (skel # None /\ SkeletonHasRagdoll(skel))
        => \A i \in DOMAIN skel.bones :
              /\ BoneEnd(skel, "Local", skel.bones[i].data.name) = JointAt(skel, i)
              /\ skel.bones[i].ragdoll_parent # NoBone
                    => BoneStart(skel, "Local", skel.bones[i].data.name)
                          = JointAt(skel, skel.bones[i].ragdoll_parent)

\* C26: between calls of activate() and add_constraint the activity never
\* increases: a step in which a particle moves above the rest threshold leaves
\* it as it is and does not restore it, a quiet step takes one off it, and the
\* system is inactive once ten steps since the last activation were quiet,
\* whether or not they were consecutive.
C26_ActivityNeverRestored ==
    [][ /\ ps'.activity > ps.activity => op'.name \in {"activate", "add_constraint"}
        /\ (op'.name = "step" /\ op'.moved) => ps'.activity = ps.activity
        /\ (op'.name = "step" /\ op'.was_active /\ ~op'.moved)
              => ps'.activity = ps.activity - 1
        /\ ps_quiet' = ActivityMax => ~PSActive(ps') ]_vars

\* C26 witness: a step moved a particle above the threshold after quiet steps
\* had already lowered the activity, and the activity stayed lowered
C26_Witness ==
    /\ op.name = "step" /\ op.was_active /\ op.moved
    /\ ps_quiet > 0
    /\ ps.activity = ActivityMax - ps_quiet
    /\ \E i \in DOMAIN ps.particles : ps.particles[i].position # ps.particles[i].prev_position

\* C27: the rest of a ragdoll is absorbing.  No call raises the rest counter;
\* once it is 0, at_rest() stays true, a step changes nothing and does not
\* call the collider, and a force moves the joints at the moment of the call
\* and leaves everything else as it is.
C27_RestIsAbsorbing ==
    [][ /\ ragdoll'.steps_until_rest <= ragdoll.steps_until_rest
        /\ RagdollAtRest(ragdoll)
              => /\ RagdollAtRest(ragdoll')
                 /\ op'.name = "step" => (ragdoll' = ragdoll /\ op'.calls = 0)
                 /\ op'.name = "apply_force"
                       => /\ ragdoll' = [ragdoll EXCEPT !.joints = ragdoll'.joints]
                          /\ \A i \in DOMAIN ragdoll.joints :
                                /\ ragdoll'.joints[i].position # ragdoll.joints[i].position
                                /\ ragdoll'.joints[i] =
                                      [ragdoll.joints[i] EXCEPT
                                          !.position = ragdoll'.joints[i].position] ]_vars

\* C27 witness: a ragdoll at rest was stepped after a force had moved a joint
\* away from where it rested
C27_Witness ==
    /\ op.name = "step"
    /\ RagdollAtRest(ragdoll)
    /\ \E i \in DOMAIN ragdoll.joints :
          /\ ParticleMoved(ragdoll.joints[i])
          /\ ragdoll.joints[i].position # ragdoll.joints[i].prev_position

\* the static transform of a rigid body
StaticTransform(rb) ==
    [position |-> rb.position, offset |-> rb.offset, scale |-> rb.scale, angle |-> rb.angle]

\* C28: a weapon is attached exactly when it is not dynamic.  Attached, fixate
\* records the static transform, get_iks answers targets and step does
\* nothing; detached, fixate does nothing, get_iks answers none and step
\* advances the detached time and the particles.  detach samples the
\* particles on an attached weapon only, and attach makes the weapon attached
\* with the detached time back at 0.
C28_TwoModes ==
    [][ /\ WeaponAttached(weapon') <=> ~weapon'.has_ragdoll
        /\ \A shoulder \in WeaponShoulders :
              WeaponAttached(weapon') <=> WeaponGetIks(weapon', shoulder) # <<>>
        /\ op'.name = "fixate"
              => IF WeaponAttached(weapon)
                 THEN /\ StaticTransform(weapon'.rigid)
                           = [position |-> op'.shoulder,
                              offset   |-> <<-weapon.recoil, 0>>,
                              scale    |-> VFlipped(Facing(weapon.direction + Pi \div 2)),
                              angle    |-> weapon.direction]
                      /\ weapon'.rigid.particles = weapon.rigid.particles
                 ELSE weapon' = weapon
        /\ op'.name = "weapon_step"
              => IF WeaponAttached(weapon)
                 THEN weapon' = weapon
                 ELSE /\ weapon'.ragdoll_duration = weapon.ragdoll_duration + op'.dt
                      /\ StaticTransform(weapon'.rigid) = StaticTransform(weapon.rigid)
                      /\ PSActive(weapon.rigid.particles)
                            => weapon'.rigid.particles # weapon.rigid.particles
        /\ op'.name = "detach"
              => /\ ~WeaponAttached(weapon')
                 /\ ~WeaponAttached(weapon) => weapon' = weapon
                 /\ WeaponAttached(weapon)
                       => \A k \in DOMAIN weapon.rigid.lines :
                             weapon'.rigid.particles.particles[weapon.rigid.lines[k].a.index].position
                                = RigidTransform(weapon.rigid, weapon.rigid.lines[k].a.pos)
        /\ op'.name = "attach"
              => /\ WeaponAttached(weapon')
                 /\ weapon'.ragdoll_duration = 0
                 /\ weapon'.rigid = weapon.rigid ]_vars

\* C28 witness: detach was called on a weapon that was already detached and
\* whose particles had left the places the static transform gives them
C28_Witness ==
    /\ op.name = "detach"
    /\ weapon.has_ragdoll
    /\ weapon.ragdoll_duration > 0
    /\ \E k \in DOMAIN weapon.rigid.lines :
          weapon.rigid.particles.particles[weapon.rigid.lines[k].a.index].position
             # RigidTransform(weapon.rigid, weapon.rigid.lines[k].a.pos)

(***************************************************************************)
(* C29: IK does not persist across frames                                  *)
(***************************************************************************)

\* the angle, animation angle, start and end of every bone
BonePose(sk) ==
    [i \in DOMAIN sk.bones |->
        <<sk.bones[i].angle, sk.bones[i].animation_angle, sk.bones[i].start, sk.bones[i].end>>]

\* the bones as Skeleton::new made them, with the offset angles set since
FreshBones(sk) ==
    [i \in DOMAIN sk.bones |->
        [SkeletonNew(sk.data).bones[i] EXCEPT !.offset_angle = sk.bones[i].offset_angle]]

MaxFrameCalls == 4

\* the figure of the example's player with its rifle on the back
FrameFigure == AddAccessory(StickFigureNew(Standing), "Weapon", "Back", WeaponNew(RifleData))

InitFrames ==
    /\ figure = FrameFigure
    /\ clock = 0
    /\ calls = 0
    /\ detached_at_death = {}
    /\ aborted = FALSE
    /\ op = [name |-> "new", last |-> "none"]
    /\ PSUnused
    /\ WeaponUnused
    /\ RagdollUnused
    /\ SkeletonUnused
    /\ AnimatorUnused
    /\ RigidUnused
    /\ HasherUnused

\* what every call of these frames starts with
FrameCalled ==
    /\ ~aborted
    /\ calls < MaxFrameCalls
    /\ calls' = calls + 1
    /\ UNCHANGED <<nonFigVars, detached_at_death>>

\* the skeleton of draw as skeleton.step leaves it, before the IK phase
FrameStepped(f, dt, floor) == FigureStepped(FigurePosed(FigureUpdate(f, dt)), dt, floor).skeleton

\* last tells how the weapon was in the latest frame drawn: "attached" when
\* fixate recorded a transform in it, "detached" when it did not, "none"
\* before the first frame
FrameSetStateCall ==
    /\ FrameCalled
    /\ \E s \in PlayerStates :
          LET r == FigureSetState(figure, s)
          IN  /\ figure' = r.figure
              /\ aborted' = r.aborted
    /\ op' = [name |-> "set_state", last |-> op.last]
    /\ UNCHANGED clock

FrameAttachCall ==
    /\ FrameCalled
    /\ figure' = FigureAttach(figure, "Weapon")
    /\ op' = [name |-> "attach", last |-> op.last]
    /\ UNCHANGED <<clock, aborted>>

FrameDetachCall ==
    /\ FrameCalled
    /\ figure' = FigureDetach(figure, "Weapon")
    /\ op' = [name |-> "detach", last |-> op.last]
    /\ UNCHANGED <<clock, aborted>>

\* iks are the targets the accessory IK loop of this frame applied for the weapon
FrameDrawCall ==
    /\ FrameCalled
    /\ LET r == FigureDraw(figure, FrameTime, clock + FrameTime, FigureFloor)
       IN  /\ figure' = r.figure
           /\ aborted' = r.aborted
    /\ clock' = clock + FrameTime
    /\ op' = [name |-> "draw",
              alive |-> figure.state.is_alive /\ ~SkeletonHasRagdoll(figure.skeleton),
              attached |-> WeaponAttached(figure.accessories["Weapon"]),
              before |-> op.last,
              iks |-> AccessoryGetIks(figure.accessories["Weapon"],
                                      FrameStepped(figure, FrameTime, FigureFloor)),
              last |-> IF WeaponAttached(figure.accessories["Weapon"])
                       THEN "attached" ELSE "detached"]

NextFrames ==
    \/ FrameSetStateCall
    \/ FrameAttachCall
    \/ FrameDetachCall
    \/ FrameDrawCall

SpecFrames == InitFrames /\ [][NextFrames]_vars

\* the rigid body with the transform fixate records for the weapon w:
\* offset (-recoil, 0), scale the flipped facing, angle the aim direction
FixatedBy(w) ==
    RigidStepStatic(w.rigid, w.rigid.position, <<-w.recoil, 0>>,
                    VFlipped(Facing(w.direction + Pi \div 2)), w.direction)

\* the rigid body with the transform it is constructed with
Unfixated(w) == RigidStepStatic(w.rigid, w.rigid.position, Zero, <<1, 1>>, 0)

\* the targets of the weapon's hands over the stepped skeleton of this frame,
\* for the rigid body rb
HandTargets(f, rb) ==
    RigidIksStatic(rb, BoneEnd(FrameStepped(f, FrameTime, FigureFloor), "Animation",
                               f.accessories["Weapon"].bone))

\* C30: in a frame drawn of an alive figure with an attached weapon the hand
\* targets are computed over the stepped skeleton from the transform that
\* fixate recorded in the previous frame, i.e. from the recoil and the aim
\* the weapon was given in the previous frame; in the first frame they are
\* computed from the transform of construction.
C30_IksFromPreviousFrame ==
    [][ (op'.name = "draw" /\ op'.alive /\ op'.attached)
            => op'.iks = HandTargets(figure,
                                     IF clock = 0
                                     THEN Unfixated(figure.accessories["Weapon"])
                                     ELSE FixatedBy(figure.accessories["Weapon"])) ]_vars


=============================================================================
